---- MODULE Spec2Model ----
(***************************************************************************)
(* AshBorn: the Subsystem Orchestrator (AshbornEngine) and the Frame       *)
(* Scheduler (Application).                                                *)
(*                                                                         *)
(* Time is counted in ticks of 1/6000 s, so that the default fixed         *)
(* timestep (1/60 s = 100 ticks), the 1 ms clamps (6 ticks) and the        *)
(* default maximum delta (0.25 s = 1500 ticks) are all whole numbers.      *)
(***************************************************************************)
EXTENDS Integers, Sequences, FiniteSets, TLC

\* ------------------------------------------------------------------ bounds
MaxFrames == 2
MaxControlCalls == 2
MaxRingFrames == 61
MaxChunkSize == 70

\* ------------------------------------------------------- program constants
TicksPerSecond == 6000
FPS_SAMPLE_COUNT == 60
MaxCatchUpSteps == 5
DefaultFixedTimestep == 100
DefaultMaxDeltaTime == 1500
DefaultTimeScale == 1
MinFixedTimestep == 6
MinMaxDeltaTime == 6
MinTimeScale == 0
\* getStats(): refresh interval in ms, the placeholder values it writes
StatsRefreshMs == 100
PlaceholderFPS == 60
PlaceholderFrameTimeUs == 16670

\* ------------------------------------------------------------- input sets
\* Points of the bring-up at which a collaborator can report failure.
FailPoints ==
    {"core", "glfwInit", "createWindow", "createVulkanInstance",
     "selectPhysicalDevice", "createLogicalDevice", "createSwapchain",
     "input", "audio", "world", "network", "assets"}

OptionalFailPoints == {"audio", "network"}

\* Outcomes of one bring-up: nothing fails, one point fails, or one point fails
\* together with an optional stage
FailSets ==
    {{}} \cup {{p} : p \in FailPoints}
         \cup {{p, q} : p \in FailPoints, q \in OptionalFailPoints}

\* Outcomes of a bring-up called directly on the engine: at most two points fail
BringUpOutcomes == {f \in SUBSET FailPoints : Cardinality(f) <= 2}

\* Configurations the engine is constructed with: the two network modes of a
\* valid configuration, a bad window size and a bad chunk size
DefaultConfig ==
    [width |-> 800, height |-> 600, chunk_size |-> 32, mode |-> "Offline"]

Configs ==
    {DefaultConfig,
     [DefaultConfig EXCEPT !.mode = "P2P_Host"],
     [DefaultConfig EXCEPT !.width = 0],
     [DefaultConfig EXCEPT !.chunk_size = 24, !.mode = "P2P_Host"]}

\* Arguments the caller and the callbacks pass to the control operations
TimeScaleArgs == {-1, 0, 2}
TargetFPSArgs == {0, 30}
FixedTimestepArgs == {3, 400}
MaxDeltaTimeArgs == {0, 300}

\* Clock: time between two readings of steady_clock, in ticks
GapTimes == {0, 640}
WorkTimes == {60}
Overshoots == {0, 2}

\* Inputs of one fixed-step phase: the carried-over accumulator, the frame's
\* delta_time and the fixed timestep, in ticks
FixedAccumulators == {0, 50, 99, 250}
FixedDeltas == {0, 1, 100, 300, 500, 640}
FixedSteps == {6, 100, 400}

\* Constant raw frame durations of a long run of frames, in ticks
RingDurations == {50, 100}

\* std::max(a, b) and std::min(a, b) as <algorithm> computes them
StdMax(a, b) == IF a < b THEN b ELSE a
StdMin(a, b) == IF b < a THEN b ELSE a

VARIABLES
    app,        \* the Application object's fields
    eng,        \* the AshbornEngine object's fields
    calls,      \* stage calls made by the most recent Orchestrator operation
    ret,        \* result of the most recent operation
    pc,         \* position of the caller / of run() / of runFrame()
    mode,       \* "none", "run" (frame driven by run()) or "manual" (runFrame())
    steps,      \* local variable `steps` of fixedUpdate()
    elapsed,    \* steady_clock::now() - current_frame_time_
    phases,     \* phases executed so far by the current runFrame()
    hist        \* observations used to state the properties

vars == <<app, eng, calls, ret, pc, mode, steps, elapsed, phases, hist>>

\* The objects an operation can touch, threaded through the operators below.
\* `freed` gathers, in order, the handle releases the operation attempts
World ==
    [app |-> app, eng |-> eng, calls |-> calls, ret |-> ret, freed |-> <<>>]

Commit(w) ==
    /\ app' = w.app
    /\ eng' = w.eng
    /\ calls' = w.calls
    /\ ret' = w.ret

Ret(w, r) == [w EXCEPT !.ret = r]
Called(w, what, stage) == [w EXCEPT !.calls = Append(@, <<what, stage>>)]
Freed(w, handle) == [w EXCEPT !.freed = Append(@, handle)]

\* ============================================================ AshbornEngine

\* a & b on non-negative integers
RECURSIVE BitAnd(_, _)
BitAnd(a, b) ==
    IF a = 0 \/ b = 0 THEN 0
    ELSE (a % 2) * (b % 2) + 2 * BitAnd(a \div 2, b \div 2)

validateWindowOnly(config) ==
    IF config.width <= 0 \/ config.height <= 0 THEN "InvalidConfiguration"
    ELSE "ok"

validateWithoutZeroTest(config) ==
    IF config.width <= 0 \/ config.height <= 0 THEN "InvalidConfiguration"
    ELSE IF BitAnd(config.chunk_size, config.chunk_size - 1) # 0
         THEN "InvalidConfiguration"
    ELSE "ok"

validateEngineConfig(config) ==
    IF config.width <= 0 \/ config.height <= 0 THEN "InvalidConfiguration"
    ELSE IF config.chunk_size = 0
            \/ BitAnd(config.chunk_size, config.chunk_size - 1) # 0
         THEN "InvalidConfiguration"
    ELSE "ok"

\* ---- handle release helpers
cleanupSwapchain(w) == Freed(w, "swapchain")

cleanupDevice(w) ==
    Freed(IF w.eng.device THEN [w EXCEPT !.eng.device = FALSE] ELSE w, "device")

cleanupInstance(w) ==
    Freed(IF w.eng.instance THEN [w EXCEPT !.eng.instance = FALSE] ELSE w,
          "instance")

cleanupWindow(w) ==
    Freed(IF w.eng.window
          THEN [w EXCEPT !.eng.window = FALSE, !.eng.closeReq = FALSE,
                         !.eng.hooked = FALSE]
          ELSE w, "window")

\* ---- stage shutdowns
shutdownAssets(w) == Called(w, "shutdown", "assets")
shutdownNetwork(w) == Called(w, "shutdown", "network")
shutdownWorld(w) == Called(w, "shutdown", "world")
shutdownAudio(w) == Called(w, "shutdown", "audio")
shutdownInput(w) == Called(w, "shutdown", "input")

shutdownRendererInstanceFirst(w) ==
    cleanupSwapchain(cleanupDevice(cleanupInstance(Called(w, "shutdown", "renderer"))))

shutdownRenderer(w) ==
    cleanupInstance(cleanupDevice(cleanupSwapchain(Called(w, "shutdown", "renderer"))))

shutdownWindow(w) == cleanupWindow(Called(w, "shutdown", "window"))

shutdownCore(w) == Called(w, "shutdown", "core")

\* ---- stage bring-ups: [ok, w]
createWindow(w, fail) ==
    IF "createWindow" \in fail
    THEN [ok |-> FALSE, w |-> w]
    ELSE [ok |-> TRUE,
          w |-> [w EXCEPT !.eng.window = TRUE, !.eng.closeReq = FALSE,
                          !.eng.hooked = FALSE]]

initializeCore(w, fail) ==
    [ok |-> "core" \notin fail, w |-> Called(w, "init", "core")]

initializeWindow(w, fail) ==
    LET w1 == Called(w, "init", "window") IN
    IF "glfwInit" \in fail THEN [ok |-> FALSE, w |-> w1]
    ELSE createWindow(w1, fail)

initializeRenderer(w, fail) ==
    LET w1 == Called(w, "init", "renderer") IN
    IF "createVulkanInstance" \in fail THEN [ok |-> FALSE, w |-> w1]
    ELSE IF "selectPhysicalDevice" \in fail
         THEN [ok |-> FALSE, w |-> cleanupInstance(w1)]
    ELSE IF "createLogicalDevice" \in fail
         THEN [ok |-> FALSE, w |-> cleanupInstance(w1)]
    ELSE IF "createSwapchain" \in fail
         THEN [ok |-> FALSE, w |-> cleanupInstance(cleanupDevice(w1))]
    ELSE [ok |-> TRUE, w |-> w1]

initializeInput(w, fail) ==
    [ok |-> "input" \notin fail, w |-> Called(w, "init", "input")]

initializeAudio(w, fail) ==
    [ok |-> "audio" \notin fail, w |-> Called(w, "init", "audio")]

initializeWorld(w, fail) ==
    [ok |-> "world" \notin fail, w |-> Called(w, "init", "world")]

initializeNetwork(w, fail) ==
    [ok |-> "network" \notin fail, w |-> Called(w, "init", "network")]

initializeAssets(w, fail) ==
    [ok |-> "assets" \notin fail, w |-> Called(w, "init", "assets")]

\* ---- the rollback sequences written out in initialize()
RollbackWindow(w) == shutdownCore(w)
RollbackRendererForward(w) == shutdownWindow(shutdownCore(w))
RollbackRenderer(w) == shutdownCore(shutdownWindow(w))
RollbackInput(w) == shutdownCore(shutdownWindow(shutdownRenderer(w)))
RollbackWorld(w) ==
    shutdownCore(shutdownWindow(shutdownRenderer(shutdownInput(shutdownAudio(w)))))
RollbackAssets(w) ==
    shutdownCore(shutdownWindow(shutdownRenderer(shutdownInput(shutdownAudio(
        shutdownWorld(shutdownNetwork(w)))))))

NetworkStageKeepsMode(w, fail) ==
    IF w.eng.config.mode # "Offline" THEN initializeNetwork(w, fail).w ELSE w

\* network stage of initialize(): skipped when offline, forced offline on failure
NetworkStage(w, fail) ==
    IF w.eng.config.mode # "Offline"
    THEN LET r == initializeNetwork(w, fail) IN
         IF ~r.ok THEN [r.w EXCEPT !.eng.config.mode = "Offline"] ELSE r.w
    ELSE w

InitializeTailWorldFirst(w, fail) ==
    LET rWld == initializeWorld(w, fail)
        rAud == initializeAudio(rWld.w, fail)
        wNet == NetworkStage(rAud.w, fail)
        rAst == initializeAssets(wNet, fail)
    IN  IF ~rWld.ok THEN Ret(RollbackWorld(rWld.w), "SubsystemFailure")
        ELSE IF ~rAst.ok THEN Ret(RollbackAssets(rAst.w), "SubsystemFailure")
        ELSE Ret([rAst.w EXCEPT !.eng.initialized = TRUE, !.eng.running = TRUE], "ok")

InitializeTail(w, fail) ==
    LET rAud == initializeAudio(w, fail)
        rWld == initializeWorld(rAud.w, fail)
        wNet == NetworkStage(rWld.w, fail)
        rAst == initializeAssets(wNet, fail)
    IN  IF ~rWld.ok THEN Ret(RollbackWorld(rWld.w), "SubsystemFailure")
        ELSE IF ~rAst.ok THEN Ret(RollbackAssets(rAst.w), "SubsystemFailure")
        ELSE Ret([rAst.w EXCEPT !.eng.initialized = TRUE, !.eng.running = TRUE], "ok")

initializeUnguarded(w0, fail) ==
    LET w == [w0 EXCEPT !.calls = <<>>]
        rCore == initializeCore(w, fail)
        rWin == initializeWindow(rCore.w, fail)
        rRen == initializeRenderer(rWin.w, fail)
        rInp == initializeInput(rRen.w, fail)
    IN  IF validateEngineConfig(w.eng.config) # "ok"
        THEN Ret(w, "InvalidConfiguration")
        ELSE IF ~rCore.ok THEN Ret(rCore.w, "SubsystemFailure")
        ELSE IF ~rWin.ok THEN Ret(RollbackWindow(rWin.w), "SubsystemFailure")
        ELSE IF ~rRen.ok THEN Ret(RollbackRenderer(rRen.w), "SubsystemFailure")
        ELSE IF ~rInp.ok THEN Ret(RollbackInput(rInp.w), "SubsystemFailure")
        ELSE InitializeTail(rInp.w, fail)

initialize(w0, fail) ==
    LET w == [w0 EXCEPT !.calls = <<>>]
        rCore == initializeCore(w, fail)
        rWin == initializeWindow(rCore.w, fail)
        rRen == initializeRenderer(rWin.w, fail)
        rInp == initializeInput(rRen.w, fail)
    IN  IF w.eng.initialized THEN Ret(w, "AlreadyInitialized")
        ELSE IF validateEngineConfig(w.eng.config) # "ok"
             THEN Ret(w, "InvalidConfiguration")
        ELSE IF ~rCore.ok THEN Ret(rCore.w, "SubsystemFailure")
        ELSE IF ~rWin.ok THEN Ret(RollbackWindow(rWin.w), "SubsystemFailure")
        ELSE IF ~rRen.ok THEN Ret(RollbackRenderer(rRen.w), "SubsystemFailure")
        ELSE IF ~rInp.ok THEN Ret(RollbackInput(rInp.w), "SubsystemFailure")
        ELSE InitializeTail(rInp.w, fail)

ShutdownStagesForward(w) ==
    shutdownAssets(shutdownNetwork(shutdownWorld(shutdownAudio(shutdownInput(
        shutdownRenderer(shutdownWindow(shutdownCore(w))))))))

ShutdownStages(w) ==
    shutdownCore(shutdownWindow(shutdownRenderer(shutdownInput(shutdownAudio(
        shutdownWorld(shutdownNetwork(shutdownAssets(w))))))))

shutdownUnguarded(w0) ==
    LET w == [w0 EXCEPT !.calls = <<>>] IN
    Ret([ShutdownStages([w EXCEPT !.eng.running = FALSE])
            EXCEPT !.eng.initialized = FALSE], "ok")

shutdown(w0) ==
    LET w == [w0 EXCEPT !.calls = <<>>] IN
    IF ~w.eng.initialized THEN Ret(w, "NotInitialized")
    ELSE Ret([ShutdownStages([w EXCEPT !.eng.running = FALSE])
                 EXCEPT !.eng.initialized = FALSE], "ok")

\* updateConfig(): wholesale replacement before initialization; afterwards
\* nothing is applied
updateConfig(w, config) ==
    IF ~w.eng.initialized
    THEN Ret([w EXCEPT !.eng.config = config], "ok")
    ELSE Ret(w, "ok")

\* the fields updateConfig() reports as skipped: its result carries none
updateConfigReport(w, config) == {}

\* getStats(): stats_age is the time in ms since last_stats_update_; the
\* snapshot returned is the cache after the call
getStats(w) ==
    IF w.eng.stats_age > StatsRefreshMs
    THEN [w EXCEPT !.eng.stats_age = 0,
                   !.eng.stats.fps = PlaceholderFPS,
                   !.eng.stats.frame_time_ms = PlaceholderFrameTimeUs]
    ELSE w

EngineRequestExit(w) == [w EXCEPT !.eng.running = FALSE]
EngineSetPaused(w, paused) == [w EXCEPT !.eng.paused = paused]

\* ============================================================== Application

requestExitToggles(w) ==
    LET w1 == EngineRequestExit([w EXCEPT !.app.running = ~@]) IN
    IF w1.eng.window THEN [w1 EXCEPT !.eng.closeReq = TRUE] ELSE w1

requestExitOnlyPauses(w) ==
    [w EXCEPT !.app.paused = TRUE, !.eng.paused = TRUE]

requestExit(w) ==
    LET w1 == EngineRequestExit([w EXCEPT !.app.running = FALSE]) IN
    IF w1.eng.window THEN [w1 EXCEPT !.eng.closeReq = TRUE] ELSE w1

setPaused(w, paused) ==
    IF w.app.paused # paused
    THEN EngineSetPaused([w EXCEPT !.app.paused = paused], paused)
    ELSE w

setTimeScale(w, scale) ==
    LET ts == StdMax(MinTimeScale, scale) IN
    [w EXCEPT !.app.time_scale = ts, !.app.timing.time_scale = ts]

setTargetFPS(w, fps) == [w EXCEPT !.app.target_fps = fps]

setFixedTimestepUnclamped(w, timestep) ==
    [w EXCEPT !.app.fixed_timestep = timestep,
              !.app.timing.fixed_delta_time = timestep]

setFixedTimestep(w, timestep) ==
    LET ft == StdMax(MinFixedTimestep, timestep) IN
    [w EXCEPT !.app.fixed_timestep = ft, !.app.timing.fixed_delta_time = ft]

setMaxDeltaTime(w, max_dt) ==
    [w EXCEPT !.app.max_delta_time = StdMax(MinMaxDeltaTime, max_dt)]

AppInitializeIgnoresFailure(w, fail) ==
    LET w1 == initialize(w, fail) IN
    IF w1.eng.window THEN Ret([w1 EXCEPT !.eng.hooked = TRUE], "ok")
    ELSE Ret(w1, "ok")

\* Application::initialize(): engine bring-up, then the window callbacks
AppInitialize(w, fail) ==
    LET w1 == initialize(w, fail) IN
    IF w1.ret # "ok" THEN Ret(w1, "EngineInitFailed")
    ELSE IF w1.eng.window THEN [w1 EXCEPT !.eng.hooked = TRUE]
    ELSE w1

\* Application::run() entered from a callback of the active loop: bring-up if
\* the engine is not initialized, then the AlreadyRunning test. The call is
\* made only while running_ is set, so the loop of a nested run() is not entered.
run(w, fail) ==
    LET w1 == IF ~w.eng.initialized THEN AppInitialize(w, fail) ELSE w IN
    IF ~w.eng.initialized /\ w1.ret # "ok" THEN w1
    ELSE IF w1.app.running THEN Ret(w1, "AlreadyRunning")
    ELSE w1

shouldCloseIgnoresWindow(w) == ~w.app.running \/ ~w.eng.running

shouldClose(w) ==
    IF ~w.app.running \/ ~w.eng.running THEN TRUE
    ELSE IF w.eng.window THEN w.eng.closeReq
    ELSE FALSE

updateTimingSamplesDelta(w, raw_delta) ==
    LET dt == StdMin(raw_delta * w.app.time_scale, w.app.max_delta_time) IN
    [w EXCEPT !.app.timing.delta_time = dt,
              !.app.timing.total_time = @ + dt,
              !.app.fps_samples[w.app.fps_sample_index] = dt,
              !.app.fps_sample_index = (@ + 1) % FPS_SAMPLE_COUNT]

updateTimingAddsRaw(w, raw_delta) ==
    LET dt == StdMin(raw_delta * w.app.time_scale, w.app.max_delta_time) IN
    [w EXCEPT !.app.timing.delta_time = dt,
              !.app.timing.total_time = @ + raw_delta,
              !.app.fps_samples[w.app.fps_sample_index] = raw_delta,
              !.app.fps_sample_index = (@ + 1) % FPS_SAMPLE_COUNT]

updateTimingUnclamped(w, raw_delta) ==
    LET dt == raw_delta * w.app.time_scale IN
    [w EXCEPT !.app.timing.delta_time = dt,
              !.app.timing.total_time = @ + dt,
              !.app.fps_samples[w.app.fps_sample_index] = raw_delta,
              !.app.fps_sample_index = (@ + 1) % FPS_SAMPLE_COUNT]

updateTiming(w, raw_delta) ==
    LET dt == StdMin(raw_delta * w.app.time_scale, w.app.max_delta_time) IN
    [w EXCEPT !.app.timing.delta_time = dt,
              !.app.timing.total_time = @ + dt,
              !.app.fps_samples[w.app.fps_sample_index] = raw_delta,
              !.app.fps_sample_index = (@ + 1) % FPS_SAMPLE_COUNT]

\* std::accumulate over fps_samples_
RECURSIVE SumSamples(_, _)
SumSamples(samples, n) ==
    IF n = 0 THEN 0 ELSE samples[n - 1] + SumSamples(samples, n - 1)

\* getAverageFPS(): sum / FPS_SAMPLE_COUNT, the samples being seconds; kept as
\* a fraction of whole numbers (ticks over ticks per second)
getAverageFPS(w) ==
    [num |-> SumSamples(w.app.fps_samples, FPS_SAMPLE_COUNT),
     den |-> FPS_SAMPLE_COUNT * TicksPerSecond]

\* timing_.interpolation = accumulator_ / fixed_timestep_, kept as a fraction
Interpolation(w) ==
    [w EXCEPT !.app.timing.interpolation =
                  [num |-> w.app.accumulator, den |-> w.app.fixed_timestep]]

\* ------------------------------------------- control calls and callbacks
NoOp == [op |-> "none", arg |-> 0, fail |-> {}]

LifecycleOps ==
    [op : {"requestExit", "engineRequestExit", "engineShutdown"},
     arg : {0}, fail : {{}}]
    \cup [op : {"setPaused"}, arg : {0, 1}, fail : {{}}]

EngineInitOps == [op : {"engineInitialize"}, arg : {0}, fail : FailSets]

TimingOps ==
    [op : {"setTimeScale"}, arg : TimeScaleArgs, fail : {{}}]
    \cup [op : {"setTargetFPS"}, arg : TargetFPSArgs, fail : {{}}]
    \cup [op : {"setFixedTimestep"}, arg : FixedTimestepArgs, fail : {{}}]
    \cup [op : {"setMaxDeltaTime"}, arg : MaxDeltaTimeArgs, fail : {{}}]

ApplyCtl(w, c) ==
    CASE c.op = "none" -> w
      [] c.op = "requestExit" -> requestExit(w)
      [] c.op = "engineRequestExit" -> EngineRequestExit(w)
      [] c.op = "engineShutdown" -> shutdown(w)
      [] c.op = "engineInitialize" -> initialize(w, c.fail)
      [] c.op = "run" -> run(w, c.fail)
      [] c.op = "setPaused" -> setPaused(w, c.arg = 1)
      [] c.op = "setTimeScale" -> setTimeScale(w, c.arg)
      [] c.op = "setTargetFPS" -> setTargetFPS(w, c.arg)
      [] c.op = "setFixedTimestep" -> setFixedTimestep(w, c.arg)
      [] c.op = "setMaxDeltaTime" -> setMaxDeltaTime(w, c.arg)

FramePcs ==
    {"timing", "input", "fixed", "fixed_loop", "update", "render", "gui",
     "present", "limit", "count"}

CtlAllowed(c) ==
    \/ c = NoOp
    \/ /\ hist.ctl < MaxControlCalls
       /\ c.op = "run" => app.running

\* bookkeeping: the step `name` was taken and made the control call c
HistCtl(h, c, name) ==
    [h EXCEPT !.ctl = IF c = NoOp THEN @ ELSE @ + 1,
              !.exitFrame = IF c.op = "requestExit" /\ @ = -1
                               /\ mode = "run" /\ pc \in FramePcs
                            THEN app.timing.frame_count ELSE @,
              !.prev = h.op,
              !.op = c.op,
              !.last = name]

\* bookkeeping: the step `name` was taken and called no hook
Mark(h, name) == [h EXCEPT !.prev = h.op, !.op = "none", !.last = name]

\* ------------------------------------------------------------------ Init
InitApp ==
    [running |-> FALSE, paused |-> FALSE,
     timing |-> [delta_time |-> 0, fixed_delta_time |-> 0, time_scale |-> 0,
                 total_time |-> 0, frame_count |-> 0,
                 interpolation |-> [num |-> 0, den |-> 1]],
     accumulator |-> 0,
     target_fps |-> 0,
     fixed_timestep |-> DefaultFixedTimestep,
     max_delta_time |-> DefaultMaxDeltaTime,
     time_scale |-> DefaultTimeScale,
     fps_samples |-> [i \in 0..(FPS_SAMPLE_COUNT - 1) |-> 0],
     fps_sample_index |-> 0]

\* EngineStats stats_{}: value-initialized
ZeroStats ==
    [fps |-> 0, frame_time_ms |-> 0, update_time_ms |-> 0, render_time_ms |-> 0,
     chunks_loaded |-> 0, entities_active |-> 0]

InitEngine(config) ==
    [config |-> config, initialized |-> FALSE, running |-> FALSE,
     paused |-> FALSE, window |-> FALSE, instance |-> FALSE, device |-> FALSE,
     closeReq |-> FALSE, hooked |-> FALSE,
     stats |-> ZeroStats, stats_age |-> 0]

InitHist ==
    [ctl |-> 0, exitFrame |-> -1, fcStart |-> 0, fixedCalls |-> 0,
     clamped |-> FALSE, framePaused |-> FALSE, op |-> "none",
     prev |-> "none", last |-> "construct", fail |-> {}, fixedArgs |-> {},
     given |-> <<>>, outcome |-> "none", freed |-> <<>>,
     scaleApplied |-> DefaultTimeScale, sumDelta |-> 0, nullDeref |-> FALSE]

Init ==
    /\ app = InitApp
    /\ \E config \in Configs : eng = InitEngine(config)
    /\ calls = <<>>
    /\ ret = "none"
    /\ pc = "idle"
    /\ mode = "none"
    /\ steps = 0
    /\ elapsed = 0
    /\ phases = <<>>
    /\ hist = InitHist

\* --------------------------------------------------- calls made from outside
\* The bring-up outcomes are an input only of a bring-up that reaches a stage.
FailRead(fail) ==
    (eng.initialized \/ validateEngineConfig(eng.config) # "ok") => fail = {}

\* Application::run() up to the on_start hook
CallRun(fail) ==
    /\ pc = "idle"
    /\ FailRead(fail)
    /\ LET w1 == IF ~eng.initialized THEN AppInitialize(World, fail) ELSE World
           failed == ~eng.initialized /\ w1.ret # "ok"
       IN  IF failed
           THEN Commit(w1) /\ UNCHANGED <<pc, mode>>
           ELSE IF w1.app.running
           THEN Commit(Ret(w1, "AlreadyRunning")) /\ UNCHANGED <<pc, mode>>
           ELSE /\ Commit(Ret([w1 EXCEPT !.app.running = TRUE], "pending"))
                /\ pc' = "on_start"
                /\ mode' = "run"
    /\ hist' = [Mark(hist, "run") EXCEPT !.exitFrame = -1]
    /\ UNCHANGED <<steps, elapsed, phases>>

CallAppInitialize(fail) ==
    /\ pc = "idle"
    /\ FailRead(fail)
    /\ Commit(AppInitialize(World, fail))
    /\ hist' = Mark(hist, "appInitialize")
    /\ UNCHANGED <<pc, mode, steps, elapsed, phases>>

CallControl(c) ==
    /\ pc = "idle"
    /\ c # NoOp
    /\ FailRead(c.fail)
    /\ CtlAllowed(c)
    /\ Commit(ApplyCtl(World, c))
    /\ hist' = HistCtl(hist, c, "control")
    /\ UNCHANGED <<pc, mode, steps, elapsed, phases>>

\* Application::runFrame() called directly: the guard, then the frame
CallRunFrame ==
    /\ pc = "idle"
    /\ app.timing.frame_count < MaxFrames
    /\ IF ~eng.initialized
       THEN /\ ret' = "NotInitialized"
            /\ UNCHANGED <<pc, mode>>
       ELSE /\ ret' = "pending"
            /\ pc' = "timing"
            /\ mode' = "manual"
    /\ hist' = [Mark(hist, "runFrame") EXCEPT !.fcStart = app.timing.frame_count]
    /\ phases' = <<>>
    /\ UNCHANGED <<app, eng, calls, steps, elapsed>>

\* ----------------------------------------------------------- run(): the loop
OnStart(c) ==
    /\ pc = "on_start"
    /\ CtlAllowed(c)
    /\ Commit(ApplyCtl(World, c))
    /\ pc' = "loop"
    /\ hist' = HistCtl(hist, c, "on_start")
    /\ UNCHANGED <<mode, steps, elapsed, phases>>

\* while (!shouldClose()) fails: the on_shutdown hook
OnShutdown(c) ==
    /\ pc = "loop"
    /\ shouldClose(World)
    /\ CtlAllowed(c)
    /\ Commit(ApplyCtl(World, c))
    /\ pc' = "exit"
    /\ hist' = HistCtl(hist, c, "on_shutdown")
    /\ UNCHANGED <<mode, steps, elapsed, phases>>

\* running_ = false; engine_->shutdown(); run() returns
RunExit ==
    /\ pc = "exit"
    /\ LET w1 == shutdown([World EXCEPT !.app.running = FALSE])
       IN  Commit(IF w1.ret # "ok" THEN Ret(w1, "Unknown") ELSE w1)
    /\ pc' = "idle"
    /\ mode' = "none"
    /\ hist' = Mark(hist, "runExit")
    /\ UNCHANGED <<steps, elapsed, phases>>

\* while (!shouldClose()) holds: runFrame() is entered
LoopFrame ==
    /\ pc = "loop"
    /\ ~shouldClose(World)
    /\ app.timing.frame_count < MaxFrames
    /\ IF ~eng.initialized
       THEN /\ app' = [app EXCEPT !.running = FALSE]
            /\ ret' = "NotInitialized"
            /\ pc' = "idle"
            /\ mode' = "none"
       ELSE /\ pc' = "timing"
            /\ UNCHANGED <<app, ret, mode>>
    /\ hist' = [Mark(hist, "runFrame") EXCEPT !.fcStart = app.timing.frame_count]
    /\ phases' = <<>>
    /\ UNCHANGED <<eng, calls, steps, elapsed>>

\* ------------------------------------------------------ runFrame(): phases
UpdateTiming(gap) ==
    /\ pc = "timing"
    /\ LET w1 == updateTiming(World, elapsed + gap) IN
       /\ Commit(w1)
       /\ hist' = [Mark(hist, "updateTiming") EXCEPT
                       !.scaleApplied = app.time_scale,
                       !.sumDelta = @ + w1.app.timing.delta_time]
    /\ elapsed' = 0
    /\ pc' = "input"
    /\ phases' = Append(phases, "timing")
    /\ UNCHANGED <<mode, steps>>

\* glfwPollEvents(): at most one event is dispatched per poll
InputEvents == {"none", "escape", "close", "callback"}

DispatchEvent(w, ev, c) ==
    CASE ev = "none" -> w
      [] ev = "escape" -> requestExit(w)
      [] ev = "close" -> [w EXCEPT !.eng.closeReq = TRUE]
      [] ev = "callback" -> ApplyCtl(w, c)

EventOp(ev, c) ==
    CASE ev = "escape" -> [op |-> "requestExit", arg |-> 0, fail |-> {}]
      [] ev = "callback" -> c
      [] OTHER -> NoOp

ProcessInputIgnoresPause(ev, c) ==
    /\ pc = "input"
    /\ ev = "close" => eng.window
    /\ ev \in {"escape", "callback"} => eng.hooked
    /\ (ev = "callback") = (c # NoOp)
    /\ CtlAllowed(EventOp(ev, c))
    /\ LET w1 == DispatchEvent(World, ev, c) IN
       /\ Commit(w1)
       /\ pc' = "fixed"
       /\ hist' = [HistCtl(hist, EventOp(ev, c), "processInput") EXCEPT
                       !.framePaused = w1.app.paused]
    /\ phases' = Append(phases, "input")
    /\ UNCHANGED <<mode, steps, elapsed>>

\* processInput(), then the `if (!paused_)` test of runFrame()
ProcessInput(ev, c) ==
    /\ pc = "input"
    /\ ev = "close" => eng.window
    /\ ev \in {"escape", "callback"} => eng.hooked
    /\ (ev = "callback") = (c # NoOp)
    /\ CtlAllowed(EventOp(ev, c))
    /\ LET w1 == DispatchEvent(World, ev, c) IN
       /\ Commit(w1)
       /\ pc' = IF w1.app.paused THEN "limit" ELSE "fixed"
       /\ hist' = [HistCtl(hist, EventOp(ev, c), "processInput") EXCEPT
                       !.framePaused = w1.app.paused]
    /\ phases' = Append(phases, "input")
    /\ UNCHANGED <<mode, steps, elapsed>>

\* fixedUpdate(): accumulator_ += delta_time; steps = 0
FixedBegin ==
    /\ pc = "fixed"
    /\ app' = [app EXCEPT !.accumulator = @ + app.timing.delta_time]
    /\ steps' = 0
    /\ pc' = "fixed_loop"
    /\ phases' = Append(phases, "fixed")
    /\ hist' = [Mark(hist, "fixedBegin") EXCEPT !.fixedCalls = 0, !.clamped = FALSE,
                                                !.fixedArgs = {}]
    /\ UNCHANGED <<eng, calls, ret, mode, elapsed>>

FixedIterationClampsAtFive(w, c, n) ==
    LET w1 == ApplyCtl(w, c)
        w2 == [w1 EXCEPT !.app.accumulator = @ - w1.app.fixed_timestep]
    IN  IF n + 1 >= MaxCatchUpSteps
        THEN [w2 EXCEPT !.app.accumulator = 0]
        ELSE w2

\* one iteration of the catch-up loop: hook, subtract, count, clamp
FixedIteration(w, c, n) ==
    LET w1 == ApplyCtl(w, c)
        w2 == [w1 EXCEPT !.app.accumulator = @ - w1.app.fixed_timestep]
    IN  IF n + 1 > MaxCatchUpSteps
        THEN [w2 EXCEPT !.app.accumulator = 0]
        ELSE w2

FixedStep(c) ==
    /\ pc = "fixed_loop"
    /\ app.accumulator >= app.fixed_timestep
    /\ CtlAllowed(c)
    /\ steps' = steps + 1
    /\ IF steps + 1 > MaxCatchUpSteps
       THEN /\ Commit(Interpolation(FixedIteration(World, c, steps)))
            /\ pc' = "update"
       ELSE /\ Commit(FixedIteration(World, c, steps))
            /\ pc' = "fixed_loop"
    /\ hist' = [HistCtl(hist, c, "fixedStep") EXCEPT
                    !.fixedCalls = @ + 1,
                    !.fixedArgs = @ \cup {app.fixed_timestep},
                    !.clamped = steps + 1 > MaxCatchUpSteps]
    /\ UNCHANGED <<mode, elapsed, phases>>

\* the loop condition fails: the interpolation factor is published
FixedEnd ==
    /\ pc = "fixed_loop"
    /\ app.accumulator < app.fixed_timestep
    /\ Commit(Interpolation(World))
    /\ pc' = "update"
    /\ hist' = Mark(hist, "fixedEnd")
    /\ UNCHANGED <<mode, steps, elapsed, phases>>

\* update(): the on_update hook
Update(c) ==
    /\ pc = "update"
    /\ CtlAllowed(c)
    /\ Commit(ApplyCtl(World, c))
    /\ pc' = "render"
    /\ phases' = Append(phases, "update")
    /\ hist' = HistCtl(hist, c, "update")
    /\ UNCHANGED <<mode, steps, elapsed>>

\* render(): the on_render hook
Render(c) ==
    /\ pc = "render"
    /\ CtlAllowed(c)
    /\ Commit(ApplyCtl(World, c))
    /\ pc' = "gui"
    /\ phases' = Append(phases, "render")
    /\ hist' = HistCtl(hist, c, "render")
    /\ UNCHANGED <<mode, steps, elapsed>>

\* the on_gui hook
Gui(c) ==
    /\ pc = "gui"
    /\ CtlAllowed(c)
    /\ Commit(ApplyCtl(World, c))
    /\ pc' = "present"
    /\ phases' = Append(phases, "gui")
    /\ hist' = HistCtl(hist, c, "gui")
    /\ UNCHANGED <<mode, steps, elapsed>>

PresentFrameSkipsLimit ==
    /\ pc = "present"
    /\ pc' = "count"
    /\ phases' = Append(phases, "present")
    /\ hist' = Mark(hist, "present")
    /\ UNCHANGED <<app, eng, calls, ret, mode, steps, elapsed>>

PresentFrame ==
    /\ pc = "present"
    /\ pc' = "limit"
    /\ phases' = Append(phases, "present")
    /\ hist' = Mark(hist, "present")
    /\ UNCHANGED <<app, eng, calls, ret, mode, steps, elapsed>>

\* limitFrameRate(): the clock reading when the function returns
limitFrameRate(target_fps, now, over) ==
    IF target_fps = 0 THEN now
    ELSE LET target_frame_time == TicksPerSecond \div target_fps IN
         IF now < target_frame_time THEN target_frame_time + over ELSE now

LimitFrameRate(work, over) ==
    /\ pc = "limit"
    /\ over # 0 => (app.target_fps # 0
                    /\ elapsed + work < TicksPerSecond \div app.target_fps)
    /\ elapsed' = limitFrameRate(app.target_fps, elapsed + work, over)
    /\ pc' = "count"
    /\ phases' = Append(phases, "limit")
    /\ hist' = Mark(hist, "limitFrameRate")
    /\ UNCHANGED <<app, eng, calls, ret, mode, steps>>

CountFrameUnlessPaused ==
    /\ pc = "count"
    /\ app' = [app EXCEPT !.timing.frame_count =
                              IF hist.framePaused THEN @ ELSE @ + 1]
    /\ phases' = Append(phases, "count")
    /\ IF mode = "run"
       THEN /\ pc' = "loop"
            /\ UNCHANGED <<mode, ret>>
       ELSE /\ pc' = "idle"
            /\ mode' = "none"
            /\ ret' = "ok"
    /\ hist' = Mark(hist, "frameDone")
    /\ UNCHANGED <<eng, calls, steps, elapsed>>

\* timing_.frame_count++; runFrame() returns success
CountFrame ==
    /\ pc = "count"
    /\ app' = [app EXCEPT !.timing.frame_count = @ + 1]
    /\ phases' = Append(phases, "count")
    /\ IF mode = "run"
       THEN /\ pc' = "loop"
            /\ UNCHANGED <<mode, ret>>
       ELSE /\ pc' = "idle"
            /\ mode' = "none"
            /\ ret' = "ok"
    /\ hist' = Mark(hist, "frameDone")
    /\ UNCHANGED <<eng, calls, steps, elapsed>>

\* ---- the lifecycle: bring-up outcomes and lifecycle calls vary, the clock
\* ---- advances by one fixed step per frame
LifecycleCallbacks == {NoOp} \cup LifecycleOps

Next ==
    \/ \E fail \in FailSets : CallRun(fail)
    \/ \E fail \in FailSets : CallAppInitialize(fail)
    \/ \E c \in LifecycleOps \cup EngineInitOps : CallControl(c)
    \/ CallRunFrame
    \/ \E c \in LifecycleCallbacks : OnStart(c)
    \/ \E c \in LifecycleCallbacks : OnShutdown(c)
    \/ RunExit
    \/ LoopFrame
    \/ UpdateTiming(DefaultFixedTimestep)
    \/ \E ev \in InputEvents, c \in LifecycleCallbacks : ProcessInput(ev, c)
    \/ FixedBegin
    \/ \E c \in LifecycleCallbacks : FixedStep(c)
    \/ FixedEnd
    \/ \E c \in LifecycleCallbacks : Update(c)
    \/ \E c \in LifecycleCallbacks : Render(c)
    \/ \E c \in LifecycleCallbacks : Gui(c)
    \/ PresentFrame
    \/ LimitFrameRate(60, 0)
    \/ CountFrame

Spec == Init /\ [][Next]_vars

\* ---- the frame timing: a successfully brought-up engine, frames entered
\* ---- through runFrame(), clock readings and timing controls vary
DeltaOps == {c \in TimingOps : c.op # "setTargetFPS"}
TimingCallbacks == {NoOp} \cup DeltaOps

InitTiming ==
    /\ app = InitApp
    /\ eng = InitEngine(DefaultConfig)
    /\ calls = <<>>
    /\ ret = "none"
    /\ pc = "idle"
    /\ mode = "none"
    /\ steps = 0
    /\ elapsed = 0
    /\ phases = <<>>
    /\ hist = InitHist

NextTiming ==
    \/ CallAppInitialize({})
    \/ \E c \in DeltaOps : CallControl(c)
    \/ CallRunFrame
    \/ \E gap \in GapTimes : UpdateTiming(gap)
    \/ \E c \in TimingCallbacks : ProcessInput("callback", c)
    \/ ProcessInput("none", NoOp)
    \/ FixedBegin
    \/ \E c \in TimingCallbacks : FixedStep(c)
    \/ FixedEnd
    \/ \E c \in TimingCallbacks : Update(c)
    \/ \E c \in TimingCallbacks : Render(c)
    \/ \E c \in TimingCallbacks : Gui(c)
    \/ PresentFrame
    \/ \E work \in WorkTimes, over \in Overshoots : LimitFrameRate(work, over)
    \/ CountFrame

SpecTiming == InitTiming /\ [][NextTiming]_vars

\* ---- the engine alone: bring-up with every outcome, tear-down, exit and
\* ---- pause requests, called from outside the loop
CallEngineInitialize(fail) ==
    /\ pc = "idle"
    /\ FailRead(fail)
    /\ hist.ctl < MaxControlCalls
    /\ Commit(initialize(World, fail))
    /\ hist' = [HistCtl(hist, [op |-> "engineInitialize", arg |-> 0, fail |-> fail],
                        "engineInitialize") EXCEPT !.fail = fail]
    /\ UNCHANGED <<pc, mode, steps, elapsed, phases>>

NextBringUp ==
    \/ \E fail \in BringUpOutcomes : CallEngineInitialize(fail)
    \/ \E c \in LifecycleOps : CallControl(c)

SpecBringUp == Init /\ [][NextBringUp]_vars

\* ---- one fixed-step phase as a function of its inputs: a frame of an
\* ---- initialized application stands right before fixedUpdate(), and the
\* ---- on_fixed_update hook makes no control call
InitFixed ==
    \E a \in FixedAccumulators, d \in FixedDeltas, f \in FixedSteps :
        LET w0 == AppInitialize([app |-> InitApp, eng |-> InitEngine(DefaultConfig),
                                 calls |-> <<>>, ret |-> "none",
                                 freed |-> <<>>], {})
            w1 == setFixedTimestep(w0, f)
        IN  /\ app = [w1.app EXCEPT !.accumulator = a, !.timing.delta_time = d]
            /\ eng = w1.eng
            /\ calls = w1.calls
            /\ ret = "pending"
            /\ pc = "fixed"
            /\ mode = "manual"
            /\ steps = 0
            /\ elapsed = 0
            /\ phases = <<"timing", "input">>
            /\ hist = [InitHist EXCEPT !.given = <<a, d, f>>, !.last = "processInput"]

NextFixed ==
    \/ FixedBegin
    \/ FixedStep(NoOp)
    \/ FixedEnd

SpecFixed == InitFixed /\ [][NextFixed]_vars

\* ---- a long run of frames of one constant raw duration, entered through
\* ---- runFrame() on an initialized application, the hooks making no call
CallRunFrameLong ==
    /\ pc = "idle"
    /\ app.timing.frame_count < MaxRingFrames
    /\ IF ~eng.initialized
       THEN /\ ret' = "NotInitialized"
            /\ UNCHANGED <<pc, mode>>
       ELSE /\ ret' = "pending"
            /\ pc' = "timing"
            /\ mode' = "manual"
    /\ hist' = [Mark(hist, "runFrame") EXCEPT !.fcStart = app.timing.frame_count]
    /\ phases' = <<>>
    /\ UNCHANGED <<app, eng, calls, steps, elapsed>>

InitRing ==
    /\ app = InitApp
    /\ eng = InitEngine(DefaultConfig)
    /\ calls = <<>>
    /\ ret = "none"
    /\ pc = "idle"
    /\ mode = "none"
    /\ steps = 0
    /\ elapsed = 0
    /\ phases = <<>>
    /\ \E D \in RingDurations : hist = [InitHist EXCEPT !.given = <<D>>]

NextRing ==
    \/ CallAppInitialize({})
    \/ CallRunFrameLong
    \/ \E D \in {hist.given[1]} : UpdateTiming(D)
    \/ ProcessInput("none", NoOp)
    \/ FixedBegin
    \/ FixedStep(NoOp)
    \/ FixedEnd
    \/ Update(NoOp)
    \/ Render(NoOp)
    \/ Gui(NoOp)
    \/ PresentFrame
    \/ LimitFrameRate(0, 0)
    \/ CountFrame

SpecRing == InitRing /\ [][NextRing]_vars

\* ---- run() re-entered from the callbacks of the active loop, which can also
\* ---- shut the engine down or request the exit
ReentryOps ==
    [op : {"run"}, arg : {0}, fail : {{}, {"core"}, {"createSwapchain"}}]
    \cup [op : {"engineShutdown", "requestExit"}, arg : {0}, fail : {{}}]

ReentryCallbacks == {NoOp} \cup ReentryOps

NextReentry ==
    \/ CallRun({})
    \/ \E c \in ReentryCallbacks : OnStart(c)
    \/ \E c \in ReentryCallbacks : OnShutdown(c)
    \/ RunExit
    \/ LoopFrame
    \/ UpdateTiming(DefaultFixedTimestep)
    \/ \E c \in ReentryOps : ProcessInput("callback", c)
    \/ ProcessInput("none", NoOp)
    \/ FixedBegin
    \/ \E c \in ReentryCallbacks : FixedStep(c)
    \/ FixedEnd
    \/ \E c \in ReentryCallbacks : Update(c)
    \/ \E c \in ReentryCallbacks : Render(c)
    \/ \E c \in ReentryCallbacks : Gui(c)
    \/ PresentFrame
    \/ LimitFrameRate(60, 0)
    \/ CountFrame

SpecReentry == Init /\ [][NextReentry]_vars

\* ---- validateEngineConfig() as a function of the configuration
ChunkSizes == (0..MaxChunkSize) \cup {1024, 1025, 65536, 1073741824}

WindowSizes == {-600, -1, 0, 1, 800}

ValidateConfigs ==
    [width : WindowSizes, height : WindowSizes, chunk_size : ChunkSizes,
     mode : {"Offline"}]

InitValidate ==
    /\ app = InitApp
    /\ \E config \in ValidateConfigs : eng = InitEngine(config)
    /\ calls = <<>>
    /\ ret = "none"
    /\ pc = "idle"
    /\ mode = "none"
    /\ steps = 0
    /\ elapsed = 0
    /\ phases = <<>>
    /\ hist = InitHist

CallValidate ==
    /\ pc = "idle"
    /\ hist.last = "construct"
    /\ ret' = validateEngineConfig(eng.config)
    /\ hist' = Mark(hist, "validate")
    /\ UNCHANGED <<app, eng, calls, pc, mode, steps, elapsed, phases>>

NextValidate == CallValidate

SpecValidate == InitValidate /\ [][NextValidate]_vars

\* ---- the timing setters called with arbitrary arguments, in any order
SetterArgs == {-600, -1, 0, 3, 5, 6, 7, 400}

SetterOps ==
    [op : {"setTimeScale", "setFixedTimestep", "setMaxDeltaTime"},
     arg : SetterArgs, fail : {{}}]

NextSetters == \E c \in SetterOps : CallControl(c)

SpecSetters == InitTiming /\ [][NextSetters]_vars

\* ---- the engine alone with its queries: bring-up, shutdown, configuration
\* ---- updates, statistics snapshots, and the clock moving between the calls
StatsWaits == {50, 101}

QueryFails == {{}, {"core"}}

\* time passes; past the refresh interval, more waiting changes nothing
Wait(ms) ==
    /\ pc = "idle"
    /\ eng.stats_age <= StatsRefreshMs
    /\ eng' = [eng EXCEPT !.stats_age = @ + ms]
    /\ hist' = Mark(hist, "wait")
    /\ UNCHANGED <<app, calls, ret, pc, mode, steps, elapsed, phases>>

GetStats ==
    /\ pc = "idle"
    /\ Commit(getStats(World))
    /\ hist' = Mark(hist, "getStats")
    /\ UNCHANGED <<pc, mode, steps, elapsed, phases>>

\* hist.given: the argument, the configuration and the initialized flag before
\* the call, the fields reported as skipped
UpdateConfig(config) ==
    /\ pc = "idle"
    /\ Commit(updateConfig(World, config))
    /\ hist' = [Mark(hist, "updateConfig") EXCEPT
                    !.given = <<config, eng.config, eng.initialized,
                                updateConfigReport(World, config)>>]
    /\ UNCHANGED <<pc, mode, steps, elapsed, phases>>

NextQueries ==
    \/ \E fail \in QueryFails : CallEngineInitialize(fail)
    \/ CallControl([op |-> "engineShutdown", arg |-> 0, fail |-> {}])
    \/ \E ms \in StatsWaits : Wait(ms)
    \/ GetStats
    \/ \E config \in Configs : UpdateConfig(config)

SpecQueries == Init /\ [][NextQueries]_vars

\* ---- runApplication(): logger bring-up, the Application and its run(), the
\* ---- destructors at scope exit or during unwinding, the exit status.
\* hist.outcome records what happened: "loggerFailed", "exception", or the
\* result of run().
EntryFails == {{}, {"core"}, {"createSwapchain"}}

EntryCallbacks == {NoOp, [op |-> "requestExit", arg |-> 0, fail |-> {}]}

InitEntry ==
    /\ app = InitApp
    /\ \E config \in Configs : eng = InitEngine(config)
    /\ calls = <<>>
    /\ ret = "none"
    /\ pc = "entry"
    /\ mode = "none"
    /\ steps = 0
    /\ elapsed = 0
    /\ phases = <<>>
    /\ hist = InitHist

\* Logger::init(); on failure runApplication returns 1 at once
LoggerInit(ok) ==
    /\ pc = "entry"
    /\ IF ok
       THEN /\ pc' = "idle"
            /\ hist' = Mark(hist, "loggerInit")
            /\ UNCHANGED ret
       ELSE /\ pc' = "returned"
            /\ ret' = "1"
            /\ hist' = [Mark(hist, "loggerInit") EXCEPT !.outcome = "loggerFailed"]
    /\ UNCHANGED <<app, eng, calls, mode, steps, elapsed, phases>>

\* app.run() of runApplication, called once after the logger is up
EntryRun(fail) ==
    /\ hist.last = "loggerInit"
    /\ CallRun(fail)

\* the hook invoked at this point of run() throws: the stack unwinds to the
\* handlers of runApplication
HookPoint ==
    /\ mode = "run"
    /\ \/ pc \in {"on_start", "update", "render", "gui"}
       \/ pc = "loop" /\ shouldClose(World)
       \/ pc = "fixed_loop" /\ app.accumulator >= app.fixed_timestep

CallbackThrows ==
    /\ HookPoint
    /\ pc' = "unwind"
    /\ hist' = [Mark(hist, "throw") EXCEPT !.outcome = "exception"]
    /\ UNCHANGED <<app, eng, calls, ret, mode, steps, elapsed, phases>>

\* app.run() has returned: its result decides the return statement, then the
\* scope of `app` is left
RunReturned ==
    /\ pc = "idle"
    /\ hist.last \in {"run", "runExit"}
    /\ pc' = "unwind"
    /\ hist' = [Mark(hist, "runReturned") EXCEPT !.outcome = ret]
    /\ UNCHANGED <<app, eng, calls, ret, mode, steps, elapsed, phases>>

\* Application::~Application(): on_shutdown is fired if running_ is still set;
\* an exception leaving the destructor ends the process in std::terminate
DestroyApplication(c, throws) ==
    /\ pc = "unwind"
    /\ IF app.running
       THEN IF throws
            THEN /\ c = NoOp
                 /\ pc' = "terminated"
                 /\ UNCHANGED <<app, eng, calls, ret>>
            ELSE /\ Commit(Ret(ApplyCtl(World, c), ret))
                 /\ pc' = "destroyEngine"
       ELSE /\ c = NoOp /\ ~throws
            /\ pc' = "destroyEngine"
            /\ UNCHANGED <<app, eng, calls, ret>>
    /\ hist' = Mark(hist, "destroyApplication")
    /\ UNCHANGED <<mode, steps, elapsed, phases>>

\* the exit status of runApplication: 0 after a run() that succeeded, 1 after a
\* run() error and from the catch handlers
ExitStatus(outcome) == IF outcome = "ok" THEN "0" ELSE "1"

\* AshbornEngine::~AshbornEngine(): shutdown() if still initialized; then
\* runApplication returns
DestroyEngine ==
    /\ pc = "destroyEngine"
    /\ LET w1 == IF eng.initialized THEN shutdown(World) ELSE World
       IN  Commit(Ret(w1, ExitStatus(hist.outcome)))
    /\ pc' = "returned"
    /\ mode' = "none"
    /\ hist' = Mark(hist, "destroyEngine")
    /\ UNCHANGED <<steps, elapsed, phases>>

NextEntry ==
    \/ \E ok \in BOOLEAN : LoggerInit(ok)
    \/ \E fail \in EntryFails : EntryRun(fail)
    \/ \E c \in EntryCallbacks : OnStart(c)
    \/ \E c \in EntryCallbacks : OnShutdown(c)
    \/ RunExit
    \/ LoopFrame
    \/ UpdateTiming(DefaultFixedTimestep)
    \/ \E ev \in {"none", "escape", "close"} : ProcessInput(ev, NoOp)
    \/ FixedBegin
    \/ \E c \in EntryCallbacks : FixedStep(c)
    \/ FixedEnd
    \/ \E c \in EntryCallbacks : Update(c)
    \/ \E c \in EntryCallbacks : Render(c)
    \/ \E c \in EntryCallbacks : Gui(c)
    \/ PresentFrame
    \/ LimitFrameRate(60, 0)
    \/ CountFrame
    \/ CallbackThrows
    \/ RunReturned
    \/ \E c \in EntryCallbacks, throws \in BOOLEAN : DestroyApplication(c, throws)
    \/ DestroyEngine

SpecEntry == InitEntry /\ [][NextEntry]_vars

\* ---- limitFrameRate() step by step: the clock reading on entry, the sleep,
\* ---- the spin-wait. `elapsed` is the time since the frame's timing update;
\* ---- hist.given holds the frame work done before the limiter is entered.
LimiterWork == {0, 60, 150, 190, 195, 197, 199, 200, 240}

LimiterFPS == {0, 30, 60, 120}

\* sleep_for() returns after at least the time asked for
Oversleeps == {0, 3, 10}

\* the clock moves by at least one tick between two readings that differ
SpinAdvances == {1, 2}

\* the last millisecond is left to the spin-wait
SpinWindow == 6

target_frame_time(fps) == TicksPerSecond \div fps

InitLimiter ==
    \E work \in LimiterWork, fps \in LimiterFPS :
        LET w0 == AppInitialize([app |-> InitApp, eng |-> InitEngine(DefaultConfig),
                                 calls |-> <<>>, ret |-> "none",
                                 freed |-> <<>>], {})
            w1 == setTargetFPS(w0, fps)
        IN  /\ app = w1.app
            /\ eng = w1.eng
            /\ calls = w1.calls
            /\ ret = "pending"
            /\ pc = "limit"
            /\ mode = "manual"
            /\ steps = 0
            /\ elapsed = work
            /\ phases = <<"timing", "input", "fixed", "update", "render", "gui",
                          "present">>
            /\ hist = [InitHist EXCEPT !.given = <<work>>, !.last = "present"]

LimitEnterNoWait ==
    /\ pc = "limit"
    /\ pc' = "count"
    /\ phases' = Append(phases, "limit")
    /\ hist' = Mark(hist, "limitFrameRate")
    /\ UNCHANGED <<app, eng, calls, ret, mode, steps, elapsed>>

\* the early return, the first clock reading and the choice between sleeping
\* and spinning
LimitEnter ==
    /\ pc = "limit"
    /\ pc' = IF app.target_fps = 0 THEN "count"
             ELSE IF elapsed < target_frame_time(app.target_fps)
                  THEN IF target_frame_time(app.target_fps) - elapsed > SpinWindow
                       THEN "sleep" ELSE "spin"
                  ELSE "count"
    /\ phases' = Append(phases, "limit")
    /\ hist' = Mark(hist, "limitFrameRate")
    /\ UNCHANGED <<app, eng, calls, ret, mode, steps, elapsed>>

\* std::this_thread::sleep_for(sleep_time - 0.001)
LimitSleep(over) ==
    /\ pc = "sleep"
    /\ elapsed' = target_frame_time(app.target_fps) - SpinWindow + over
    /\ pc' = "spin"
    /\ hist' = Mark(hist, "sleep")
    /\ UNCHANGED <<app, eng, calls, ret, mode, steps, phases>>

\* one pass of the spin-wait: the body reads the clock, then the condition
LimitSpin(adv) ==
    /\ pc = "spin"
    /\ elapsed' = elapsed + adv
    /\ pc' = IF elapsed + adv < target_frame_time(app.target_fps)
             THEN "spin" ELSE "count"
    /\ hist' = Mark(hist, "spin")
    /\ UNCHANGED <<app, eng, calls, ret, mode, steps, phases>>

NextLimiter ==
    \/ LimitEnter
    \/ \E over \in Oversleeps : LimitSleep(over)
    \/ \E adv \in SpinAdvances : LimitSpin(adv)
    \/ CountFrame

\* the thread that runs the frame keeps running
SpecLimiter == InitLimiter /\ [][NextLimiter]_vars /\ WF_vars(NextLimiter)

\* ---- a long run of frames whose raw durations all differ: frame k lasts
\* ---- hist.given[1] + k ticks, so that a ring slot tells which frame wrote
\* ---- it. The time scale and the pause flag are set before the first frame
\* ---- and the delta clamp is below every raw duration.
RingBases == {60}

RingScales == {0, 2}

RingMaxDelta == 50

InitRingOrder ==
    \E base \in RingBases, scale \in RingScales, paused \in BOOLEAN :
        LET w0 == AppInitialize([app |-> InitApp, eng |-> InitEngine(DefaultConfig),
                                 calls |-> <<>>, ret |-> "none",
                                 freed |-> <<>>], {})
            w1 == setMaxDeltaTime(setTimeScale(w0, scale), RingMaxDelta)
            w2 == IF paused THEN setPaused(w1, TRUE) ELSE w1
        IN  /\ app = w2.app
            /\ eng = w2.eng
            /\ calls = w2.calls
            /\ ret = "none"
            /\ pc = "idle"
            /\ mode = "none"
            /\ steps = 0
            /\ elapsed = 0
            /\ phases = <<>>
            /\ hist = [InitHist EXCEPT !.given = <<base, scale>>]

NextRingOrder ==
    \/ CallRunFrameLong
    \/ \E D \in {hist.given[1] + app.timing.frame_count + 1} : UpdateTiming(D)
    \/ ProcessInput("none", NoOp)
    \/ FixedBegin
    \/ FixedStep(NoOp)
    \/ FixedEnd
    \/ Update(NoOp)
    \/ Render(NoOp)
    \/ Gui(NoOp)
    \/ PresentFrame
    \/ LimitFrameRate(0, 0)
    \/ CountFrame

SpecRingOrder == InitRingOrder /\ [][NextRingOrder]_vars

\* ---- the engine alone, with the handle releases of each operation kept in
\* ---- hist.freed: bring-up with every outcome, and shutdown
HandlesInitialize(fail) ==
    /\ pc = "idle"
    /\ FailRead(fail)
    /\ hist.ctl < MaxControlCalls
    /\ LET w1 == initialize(World, fail) IN
       /\ Commit(w1)
       /\ hist' = [HistCtl(hist, [op |-> "engineInitialize", arg |-> 0,
                                  fail |-> fail], "engineInitialize")
                       EXCEPT !.fail = fail, !.freed = w1.freed]
    /\ UNCHANGED <<pc, mode, steps, elapsed, phases>>

HandlesShutdown ==
    /\ pc = "idle"
    /\ hist.ctl < MaxControlCalls
    /\ LET w1 == shutdown(World) IN
       /\ Commit(w1)
       /\ hist' = [HistCtl(hist, [op |-> "engineShutdown", arg |-> 0,
                                  fail |-> {}], "engineShutdown")
                       EXCEPT !.freed = w1.freed]
    /\ UNCHANGED <<pc, mode, steps, elapsed, phases>>

NextHandles ==
    \/ \E fail \in BringUpOutcomes : HandlesInitialize(fail)
    \/ HandlesShutdown

SpecHandles == Init /\ [][NextHandles]_vars

\* ---- frames of an initialized application entered through runFrame(), with
\* ---- pause and time-scale changes from outside and from event callbacks;
\* ---- hist.sumDelta adds up the delta_time of every timing update
PauseOps ==
    [op : {"setPaused"}, arg : {0, 1}, fail : {{}}]
    \cup [op : {"setTimeScale"}, arg : {0, 2}, fail : {{}}]

PauseGaps == {0, 150}

NextPause ==
    \/ CallAppInitialize({})
    \/ \E c \in PauseOps : CallControl(c)
    \/ CallRunFrame
    \/ \E gap \in PauseGaps : UpdateTiming(gap)
    \/ \E c \in PauseOps : ProcessInput("callback", c)
    \/ ProcessInput("none", NoOp)
    \/ FixedBegin
    \/ FixedStep(NoOp)
    \/ FixedEnd
    \/ Update(NoOp)
    \/ Render(NoOp)
    \/ Gui(NoOp)
    \/ PresentFrame
    \/ LimitFrameRate(0, 0)
    \/ CountFrame

SpecPause == InitTiming /\ [][NextPause]_vars

\* ---- an Application built by Application(std::unique_ptr<AshbornEngine>)
\* ---- from a null pointer: app.engine_ is FALSE and no engine object exists
\* ---- (eng is never read or written). Reading a member through the null
\* ---- engine_ is undefined: the process crashes, or the load yields a value.
\* ---- hist.nullDeref records that engine_ was dereferenced while null.
NullReads == {"crash", "false", "true"}

InitNullEngine ==
    /\ app = [engine_ |-> FALSE] @@ InitApp
    /\ eng = InitEngine(DefaultConfig)
    /\ calls = <<>>
    /\ ret = "none"
    /\ pc = "idle"
    /\ mode = "none"
    /\ steps = 0
    /\ elapsed = 0
    /\ phases = <<>>
    /\ hist = InitHist

Crash(name) ==
    /\ pc' = "crashed"
    /\ ret' = "crash"
    /\ hist' = [Mark(hist, name) EXCEPT !.nullDeref = TRUE]

\* Application::initialize(): the null test comes first
NullInitialize ==
    /\ pc = "idle"
    /\ ~app.engine_
    /\ ret' = "NotInitialized"
    /\ hist' = Mark(hist, "appInitialize")
    /\ UNCHANGED <<app, eng, calls, pc, mode, steps, elapsed, phases>>

\* Application::runFrame(): !engine_ short-circuits the guard
NullRunFrame ==
    /\ pc = "idle"
    /\ ~app.engine_
    /\ ret' = "NotInitialized"
    /\ hist' = Mark(hist, "runFrame")
    /\ UNCHANGED <<app, eng, calls, pc, mode, steps, elapsed, phases>>

\* Application::setPaused(): the engine call is skipped when engine_ is null
NullSetPaused(paused) ==
    /\ pc = "idle"
    /\ ~app.engine_
    /\ app' = IF app.paused # paused THEN [app EXCEPT !.paused = paused] ELSE app
    /\ ret' = "void"
    /\ hist' = Mark(hist, "setPaused")
    /\ UNCHANGED <<eng, calls, pc, mode, steps, elapsed, phases>>

\* Application::shouldClose() called from outside: !running_ short-circuits
\* engine_->isRunning(); with running_ set the engine is read through null
NullShouldClose(read) ==
    /\ pc = "idle"
    /\ ~app.engine_
    /\ IF ~app.running
       THEN /\ ret' = "true"
            /\ hist' = Mark(hist, "shouldClose")
            /\ UNCHANGED pc
       ELSE IF read = "crash" THEN Crash("shouldClose")
       ELSE /\ ret' = "true"
            /\ hist' = [Mark(hist, "shouldClose") EXCEPT !.nullDeref = TRUE]
            /\ UNCHANGED pc
    /\ UNCHANGED <<app, eng, calls, mode, steps, elapsed, phases>>

\* Application::requestExit(): engine_->requestExit() is guarded, the
\* engine_->getWindow() after it is not
NullRequestExit(read) ==
    /\ pc = "idle"
    /\ ~app.engine_
    /\ app' = [app EXCEPT !.running = FALSE]
    /\ IF read = "crash" THEN Crash("requestExit")
       ELSE /\ ret' = "void"
            /\ hist' = [Mark(hist, "requestExit") EXCEPT !.nullDeref = TRUE]
            /\ UNCHANGED pc
    /\ UNCHANGED <<eng, calls, mode, steps, elapsed, phases>>

\* Application::run(): engine_->isInitialized() is read first, without a null
\* test. A load that yields false leads to initialize() and its null test; a
\* load that yields true leads past the AlreadyRunning test into the loop
NullRun(read) ==
    /\ pc = "idle"
    /\ ~app.engine_
    /\ IF read = "crash" THEN Crash("run") /\ UNCHANGED app
       ELSE /\ hist' = [Mark(hist, "run") EXCEPT !.nullDeref = TRUE]
            /\ IF read = "false"
               THEN /\ ret' = "NotInitialized"
                    /\ UNCHANGED <<app, pc>>
               ELSE /\ ret' = "pending"
                    /\ app' = [app EXCEPT !.running = TRUE]
                    /\ pc' = "loop"
    /\ UNCHANGED <<eng, calls, mode, steps, elapsed, phases>>

\* the loop test of run() with a null engine_: shouldClose() reads
\* engine_->isRunning(). A load that yields true is followed by the read of
\* the window, a load that yields false by the exit path, whose
\* engine_->shutdown() goes through the null pointer again
NullLoopTest(read) ==
    /\ pc = "loop"
    /\ ~app.engine_
    /\ IF read = "crash" THEN Crash("loopTest") /\ UNCHANGED app
       ELSE /\ hist' = [Mark(hist, "loopTest") EXCEPT !.nullDeref = TRUE]
            /\ IF read = "true"
               THEN \* runFrame() returns NotInitialized, run() gives up
                    /\ app' = [app EXCEPT !.running = FALSE]
                    /\ ret' = "NotInitialized"
                    /\ pc' = "idle"
               ELSE /\ app' = [app EXCEPT !.running = FALSE]
                    /\ pc' = "null_shutdown"
                    /\ UNCHANGED ret
    /\ UNCHANGED <<eng, calls, mode, steps, elapsed, phases>>

\* engine_->shutdown() at the end of run(), through the null pointer
NullLoopShutdown(read) ==
    /\ pc = "null_shutdown"
    /\ ~app.engine_
    /\ IF read = "crash" THEN Crash("run")
       ELSE /\ ret' = IF read = "true" THEN "ok" ELSE "Unknown"
            /\ hist' = [Mark(hist, "run") EXCEPT !.nullDeref = TRUE]
            /\ pc' = "idle"
    /\ UNCHANGED <<app, eng, calls, mode, steps, elapsed, phases>>

NextNullEngine ==
    \/ NullInitialize
    \/ NullRunFrame
    \/ \E paused \in BOOLEAN : NullSetPaused(paused)
    \/ \E read \in NullReads : NullShouldClose(read)
    \/ \E read \in NullReads : NullRequestExit(read)
    \/ \E read \in NullReads : NullRun(read)
    \/ \E read \in NullReads : NullLoopTest(read)
    \/ \E read \in NullReads : NullLoopShutdown(read)
    \/ \E c \in SetterOps : CallControl(c)

SpecNullEngine == InitNullEngine /\ [][NextNullEngine]_vars

\* ---- the logger (AshCore::Logger): its globals g_initialized and g_handlers
\* ---- (names only) are held in `eng` under this specification, where no
\* ---- engine exists. The Gem library behind it is outside the repository:
\* ---- each of its calls returns ok, returns an error or throws, which the
\* ---- try/catch of every logger function turns into LogError::Unknown.
MaxHandlers == 3

GemResults == {"ok", "err", "throw"}

HandlerNames == {"console", "json_log"}

InitLoggerGlobals == [g_initialized |-> FALSE, g_handlers |-> <<>>]

\* the results of the Gem remove_handler calls made for n handlers, in order
RemovalResults(n) == [1..n -> GemResults]

\* Logger::init(); add is the result of Gem's add_handler
Logger_init(l, add) ==
    IF l.g_initialized THEN [l |-> l, ret |-> "AlreadyInitialized"]
    ELSE IF add = "throw" THEN [l |-> l, ret |-> "Unknown"]
    ELSE IF add = "err" THEN [l |-> l, ret |-> "HandlerCreationFailed"]
    ELSE [l |-> [l EXCEPT !.g_handlers = Append(@, "console"),
                          !.g_initialized = TRUE],
          ret |-> "ok"]

\* Logger::shutdown(); removals are the results of the remove_handler calls,
\* flush that of flush_all(), down that of Gem's shutdown()
Logger_shutdown(l, removals, flush, down) ==
    IF ~l.g_initialized THEN [l |-> l, ret |-> "NotInitialized"]
    ELSE IF \E i \in DOMAIN removals : removals[i] = "throw"
    THEN [l |-> l, ret |-> "Unknown"]
    ELSE LET has_errors == \E i \in DOMAIN removals : removals[i] = "err"
             cleared == [l EXCEPT !.g_handlers = <<>>]
         IN  IF flush = "throw" \/ down = "throw"
             THEN [l |-> cleared, ret |-> "Unknown"]
             ELSE [l |-> [cleared EXCEPT !.g_initialized = FALSE],
                   ret |-> IF flush = "err" THEN "FileFlushFailed"
                           ELSE IF has_errors THEN "HandlerRemovalFailed"
                           ELSE "ok"]

\* Logger::add_console_handler() with a named configuration
Logger_add_console_handler(l, name, add) ==
    IF ~l.g_initialized THEN [l |-> l, ret |-> "NotInitialized"]
    ELSE IF add = "throw" THEN [l |-> l, ret |-> "Unknown"]
    ELSE IF add = "err" THEN [l |-> l, ret |-> "HandlerCreationFailed"]
    ELSE [l |-> [l EXCEPT !.g_handlers = Append(@, name)], ret |-> "ok"]

\* g_handlers.erase(it) for the first handler called name
EraseFirst(handlers, name) ==
    LET i == CHOOSE k \in DOMAIN handlers :
                 /\ handlers[k] = name
                 /\ \A j \in 1..(k - 1) : handlers[j] # name
    IN  [k \in 1..(Len(handlers) - 1) |->
            IF k < i THEN handlers[k] ELSE handlers[k + 1]]

\* Logger::remove_handler()
Logger_remove_handler(l, name, removal) ==
    IF ~l.g_initialized THEN [l |-> l, ret |-> "NotInitialized"]
    ELSE IF \A k \in DOMAIN l.g_handlers : l.g_handlers[k] # name
    THEN [l |-> l, ret |-> "HandlerNotFound"]
    ELSE IF removal = "throw" THEN [l |-> l, ret |-> "Unknown"]
    ELSE IF removal = "err" THEN [l |-> l, ret |-> "HandlerRemovalFailed"]
    ELSE [l |-> [l EXCEPT !.g_handlers = EraseFirst(@, name)], ret |-> "ok"]

\* Logger::clear_handlers()
Logger_clear_handlers(l, removals) ==
    IF ~l.g_initialized THEN [l |-> l, ret |-> "NotInitialized"]
    ELSE IF \E i \in DOMAIN removals : removals[i] = "throw"
    THEN [l |-> l, ret |-> "Unknown"]
    ELSE [l |-> [l EXCEPT !.g_handlers = <<>>],
          ret |-> IF \E i \in DOMAIN removals : removals[i] = "err"
                  THEN "HandlerRemovalFailed" ELSE "ok"]

InitLogger ==
    /\ app = InitApp
    /\ eng = InitLoggerGlobals
    /\ calls = <<>>
    /\ ret = "none"
    /\ pc = "idle"
    /\ mode = "none"
    /\ steps = 0
    /\ elapsed = 0
    /\ phases = <<>>
    /\ hist = InitHist

LoggerCall(r, name) ==
    /\ eng' = r.l
    /\ ret' = r.ret
    /\ hist' = Mark(hist, name)
    /\ UNCHANGED <<app, calls, pc, mode, steps, elapsed, phases>>

CallLoggerInit(add) ==
    /\ pc = "idle"
    /\ LoggerCall(Logger_init(eng, add), "Logger::init")

CallLoggerShutdown(flush, down) ==
    /\ pc = "idle"
    /\ \E removals \in RemovalResults(Len(eng.g_handlers)) :
           LoggerCall(Logger_shutdown(eng, removals, flush, down),
                      "Logger::shutdown")

CallAddConsoleHandler(name, add) ==
    /\ pc = "idle"
    /\ Len(eng.g_handlers) < MaxHandlers
    /\ LoggerCall(Logger_add_console_handler(eng, name, add),
                  "Logger::add_console_handler")

CallRemoveHandler(name, removal) ==
    /\ pc = "idle"
    /\ LoggerCall(Logger_remove_handler(eng, name, removal),
                  "Logger::remove_handler")

CallClearHandlers ==
    /\ pc = "idle"
    /\ \E removals \in RemovalResults(Len(eng.g_handlers)) :
           LoggerCall(Logger_clear_handlers(eng, removals),
                      "Logger::clear_handlers")

NextLogger ==
    \/ \E add \in GemResults : CallLoggerInit(add)
    \/ \E flush \in GemResults, down \in {"ok", "throw"} :
           CallLoggerShutdown(flush, down)
    \/ \E name \in HandlerNames, add \in GemResults :
           CallAddConsoleHandler(name, add)
    \/ \E name \in HandlerNames, removal \in GemResults :
           CallRemoveHandler(name, removal)
    \/ CallClearHandlers

SpecLogger == InitLogger /\ [][NextLogger]_vars

\* ==================================================================== claims

StageOrder ==
    <<"core", "window", "renderer", "input", "audio", "world", "network", "assets">>

StageIndex(stage) == CHOOSE i \in 1..Len(StageOrder) : StageOrder[i] = stage

IsInit(e) == e[1] = "init"
IsShutdown(e) == e[1] = "shutdown"
StagesOf(log) == [i \in 1..Len(log) |-> log[i][2]]
InitsOf(log) == SelectSeq(log, IsInit)
ShutdownsOf(log) == SelectSeq(log, IsShutdown)

\* the stages before stage number k, latest first
ReverseBefore(k) == [i \in 1..(k - 1) |-> StageOrder[k - i]]

\* the last operation was a bring-up in which a stage failed critically
BringUpFailed ==
    /\ hist.last \in {"run", "appInitialize", "control"}
    /\ ret \in {"SubsystemFailure", "EngineInitFailed"}
    /\ calls # <<>>

FailedStage == InitsOf(calls)[Len(InitsOf(calls))][2]

\* C1: when a critical stage k fails in initialize(), the stages 1..k-1 are
\* shut down exactly once each, in the order k-1, ..., 1, after the bring-up
\* calls, and stage k and the later stages are not shut down.
C1_Rollback ==
    BringUpFailed =>
        /\ StagesOf(ShutdownsOf(calls)) = ReverseBefore(StageIndex(FailedStage))
        /\ calls = InitsOf(calls) \o ShutdownsOf(calls)

C1_Witness ==
    /\ BringUpFailed
    /\ FailedStage = "renderer"
    /\ Len(ShutdownsOf(calls)) = 2

\* C2: the fixed-step phase invokes the fixed-update hook at most 5 times, and
\* when the catch-up is cut short the accumulator is 0 after the phase.
C2_AtMostFiveSteps ==
    /\ hist.fixedCalls <= MaxCatchUpSteps
    /\ (hist.clamped /\ pc = "update") => app.accumulator = 0

\* the last raw delta written to the FPS ring
LastRawDelta ==
    app.fps_samples[(app.fps_sample_index + FPS_SAMPLE_COUNT - 1) % FPS_SAMPLE_COUNT]

\* C3: right after the timing update of a frame, 0 <= delta_time <= max_delta_time.
C3_DeltaTimeRange ==
    pc = "input" =>
        /\ 0 <= app.timing.delta_time
        /\ app.timing.delta_time <= app.max_delta_time

C3_Witness ==
    /\ pc = "input"
    /\ hist.ctl > 0
    /\ LastRawDelta * app.time_scale > app.max_delta_time
    /\ app.timing.delta_time = app.max_delta_time

\* C4: the accumulator is never negative, and after the fixed-step phase it is
\* below the fixed timestep, so the published interpolation factor is in [0,1).
C4_AccumulatorRange ==
    /\ app.accumulator >= 0
    /\ pc = "update" =>
          /\ app.accumulator < app.fixed_timestep
          /\ 0 <= app.timing.interpolation.num
          /\ app.timing.interpolation.num < app.timing.interpolation.den

\* C5: frame_count grows by exactly 1 over every runFrame() that returns
\* success, paused or not, is unchanged by a runFrame() that returns an error,
\* and never decreases.
C5_FrameCount ==
    [][/\ app'.timing.frame_count >= app.timing.frame_count
       /\ hist'.last = "frameDone" =>
              app'.timing.frame_count = hist.fcStart + 1
       /\ (pc \in FramePcs /\ hist'.last # "frameDone") =>
              app'.timing.frame_count = app.timing.frame_count
       /\ (hist'.last = "runFrame" /\ ret' = "NotInitialized") =>
              app'.timing.frame_count = app.timing.frame_count]_vars

C5_Witness ==
    /\ hist.last = "frameDone"
    /\ hist.framePaused
    /\ app.timing.frame_count = 2

\* C6: whenever the Scheduler's running flag is true the Orchestrator is
\* initialized.
C6_RunningImpliesInitialized == app.running => eng.initialized

FullShutdownLog ==
    <<  <<"shutdown", "assets">>, <<"shutdown", "network">>,
        <<"shutdown", "world">>, <<"shutdown", "audio">>,
        <<"shutdown", "input">>, <<"shutdown", "renderer">>,
        <<"shutdown", "window">>, <<"shutdown", "core">>  >>

\* C7: shutdown() on an Orchestrator that is not initialized returns
\* NotInitialized, calls no stage shutdown and leaves the engine (and, when
\* called from outside a frame, the Scheduler) as it was.
C7_ShutdownNotInitialized ==
    [][(hist'.op = "engineShutdown" /\ ~eng.initialized) =>
          /\ ret' = "NotInitialized"
          /\ calls' = <<>>
          /\ eng' = eng
          /\ pc = "idle" => app' = app]_vars

C7_Witness ==
    /\ hist.op = "engineShutdown"
    /\ hist.prev = "engineShutdown"
    /\ ret = "NotInitialized"
    /\ eng.config.mode = "P2P_Host"

\* C8: shutdown() on an initialized Orchestrator calls the shutdown of all
\* eight stages once, in the reverse of the bring-up order, returns success
\* and leaves initialized = running = false.
C8_ShutdownOrder ==
    [][(hist'.op = "engineShutdown" /\ eng.initialized) =>
          /\ calls' = FullShutdownLog
          /\ ret' = "ok"
          /\ ~eng'.initialized
          /\ ~eng'.running]_vars

C8_Witness ==
    /\ hist.op = "engineShutdown"
    /\ calls = FullShutdownLog
    /\ ret = "ok"
    /\ eng.config = DefaultConfig

\* C9: a requestExit() that directly follows a requestExit() leaves the
\* Scheduler's running flag, the Orchestrator's running flag and the display's
\* close request as the first call left them.
C9_RequestExitIdempotent ==
    [][(hist'.op = "requestExit" /\ hist'.prev = "requestExit") =>
          /\ app'.running = app.running
          /\ eng'.running = eng.running
          /\ eng'.closeReq = eng.closeReq]_vars

C9_Witness ==
    /\ hist.op = "requestExit"
    /\ hist.prev = "requestExit"
    /\ eng.closeReq
    /\ pc \in FramePcs

ExpectedPhases(paused) ==
    IF paused
    THEN <<"timing", "input", "limit", "count">>
    ELSE <<"timing", "input", "fixed", "update", "render", "gui", "present",
           "limit", "count">>

IsPrefix(p, q) == Len(p) <= Len(q) /\ p = SubSeq(q, 1, Len(p))

\* C10: after a requestExit() made during frame N of run(), the remaining
\* phases of frame N execute in order, frame_count is incremented for frame N,
\* and no frame N+1 is started.
C10_ExitFinishesFrame ==
    (mode = "run" /\ hist.exitFrame # -1) =>
        IF pc \in FramePcs
        THEN /\ app.timing.frame_count = hist.exitFrame
             /\ IF Len(phases) < 2
                THEN IsPrefix(phases, ExpectedPhases(TRUE))
                ELSE IsPrefix(phases, ExpectedPhases(hist.framePaused))
        ELSE /\ pc \in {"loop", "exit"}
             /\ app.timing.frame_count = hist.exitFrame + 1
             /\ phases = ExpectedPhases(hist.framePaused)

C10_Witness ==
    /\ mode = "run"
    /\ hist.exitFrame = 1
    /\ pc = "exit"
    /\ ~hist.framePaused
    /\ app.timing.frame_count = 2

\* one of the three exit conditions of the main loop holds
ExitCondition ==
    \/ ~app.running
    \/ ~eng.running
    \/ (eng.window /\ eng.closeReq)

\* C11: in a run() that gets past initialization, on_start is the first step
\* and fires once; a frame is entered only while no exit condition holds;
\* on_shutdown fires once, between frames, when an exit condition holds; the
\* Orchestrator's shutdown by run() comes directly after on_shutdown, and no
\* frame step comes after on_shutdown.
C11_RunSequence ==
    [][/\ hist'.last = "on_start" => hist.last = "run"
       /\ (hist.last = "run" /\ pc = "on_start") => hist'.last = "on_start"
       /\ (mode = "run" /\ hist'.last = "runFrame") =>
              /\ ~ExitCondition
              /\ hist.last \in {"on_start", "frameDone"}
       /\ hist'.last = "on_shutdown" =>
              /\ ExitCondition
              /\ hist.last \in {"on_start", "frameDone"}
       /\ hist.last = "on_shutdown" => hist'.last = "runExit"
       /\ hist'.last = "runExit" =>
              /\ hist.last = "on_shutdown"
              /\ eng.initialized => calls' = FullShutdownLog
              /\ ~app'.running
              /\ pc' = "idle"]_vars

C11_Witness ==
    /\ hist.last = "on_shutdown"
    /\ app.running
    /\ eng.running
    /\ eng.closeReq
    /\ app.timing.frame_count = 1

\* ---- bring-up claims, stated over the outcomes given to the bring-up
CriticalStages == {"core", "window", "renderer", "input", "world", "assets"}

\* the failure points of each stage
StagePoints ==
    [core |-> {"core"},
     window |-> {"glfwInit", "createWindow"},
     renderer |-> {"createVulkanInstance", "selectPhysicalDevice",
                   "createLogicalDevice", "createSwapchain"},
     input |-> {"input"}, audio |-> {"audio"}, world |-> {"world"},
     network |-> {"network"}, assets |-> {"assets"}]

StageFails(stage, fail) == StagePoints[stage] \cap fail # {}

AllCriticalSucceed(fail) == \A s \in CriticalStages : ~StageFails(s, fail)

CriticalBeforeSucceed(stage, fail) ==
    \A s \in CriticalStages :
        StageIndex(s) < StageIndex(stage) => ~StageFails(s, fail)

SeqRange(q) == {q[i] : i \in 1..Len(q)}

IsPowerOfTwo(n) == \E k \in 0..30 : n = 2 ^ k

InvalidConfig(config) ==
    config.width <= 0 \/ config.height <= 0 \/ ~IsPowerOfTwo(config.chunk_size)

\* the failure type each stage's init returns
TypedFailure ==
    [core |-> "CoreError", window |-> "WindowError", renderer |-> "RendererError",
     input |-> "InputError", audio |-> "AudioError", world |-> "WorldError",
     network |-> "NetworkError", assets |-> "AssetError"]

\* C12: when a critical stage fails, initialize() returns the failure typed by
\* that stage, so that the result tells which stage failed.
C12_TypedFailure ==
    (hist.last = "engineInitialize"
        /\ ret \notin {"ok", "AlreadyInitialized", "InvalidConfiguration"}) =>
        ret = TypedFailure[FailedStage]

\* C13: when the audio stage fails and every critical stage succeeds,
\* initialize() succeeds, the engine is initialized, and the engine's state
\* afterwards differs from the state a bring-up with working audio leaves, so
\* that a later query can report audio as unavailable.
C13_AudioUnavailable ==
    [][(/\ hist'.last = "engineInitialize"
        /\ ~eng.initialized
        /\ ~InvalidConfig(eng.config)
        /\ "audio" \in hist'.fail
        /\ AllCriticalSucceed(hist'.fail)) =>
           /\ ret' = "ok"
           /\ eng'.initialized
           /\ eng' # initialize(World, hist'.fail \ {"audio"}).eng]_vars

\* C14: a failing network stage leaves the configured mode Offline and the
\* bring-up still succeeds when the critical stages do; with the mode already
\* Offline the network stage's init is not invoked.
C14_NetworkFallback ==
    [][(/\ hist'.last = "engineInitialize"
        /\ ~eng.initialized
        /\ ~InvalidConfig(eng.config)) =>
           /\ (/\ eng.config.mode # "Offline"
               /\ "network" \in hist'.fail
               /\ CriticalBeforeSucceed("network", hist'.fail)) =>
                  /\ <<"init", "network">> \in SeqRange(calls')
                  /\ eng'.config.mode = "Offline"
                  /\ AllCriticalSucceed(hist'.fail) =>
                         (ret' = "ok" /\ eng'.initialized)
           /\ eng.config.mode = "Offline" =>
                  <<"init", "network">> \notin SeqRange(calls')]_vars

C14_Witness ==
    /\ hist.last = "engineInitialize"
    /\ "network" \in hist.fail
    /\ <<"init", "network">> \in SeqRange(calls)
    /\ eng.config.mode = "Offline"
    /\ ret = "ok"

\* C15: the stage inits of one initialize() are invoked in the order core,
\* window, renderer, input, audio, world, network, assets, each at most once,
\* and a stage's init is invoked only after every earlier critical stage has
\* been invoked and has succeeded.
C15_InitOrder ==
    hist.last = "engineInitialize" =>
        LET st == StagesOf(InitsOf(calls)) IN
        /\ \A i, j \in 1..Len(st) :
               i < j => StageIndex(st[i]) < StageIndex(st[j])
        /\ \A i \in 1..Len(st) : \A s \in CriticalStages :
               StageIndex(s) < StageIndex(st[i]) =>
                   (s \in SeqRange(st) /\ ~StageFails(s, hist.fail))
        /\ ret = "ok" =>
               SeqRange(st) \in {SeqRange(StageOrder),
                                 SeqRange(StageOrder) \ {"network"}}

C15_Witness ==
    /\ hist.last = "engineInitialize"
    /\ ret = "ok"
    /\ "audio" \in hist.fail
    /\ StagesOf(InitsOf(calls)) = StageOrder

\* C16: initialize() on a structurally invalid configuration returns
\* InvalidConfiguration, invokes no stage init or shutdown and leaves the
\* engine not initialized and not running.
C16_InvalidConfiguration ==
    [][(/\ hist'.last = "engineInitialize"
        /\ ~eng.initialized
        /\ InvalidConfig(eng.config)) =>
           /\ ret' = "InvalidConfiguration"
           /\ calls' = <<>>
           /\ ~eng'.initialized
           /\ ~eng'.running
           /\ eng' = eng]_vars

C16_Witness ==
    /\ hist.last = "engineInitialize"
    /\ ret = "InvalidConfiguration"
    /\ eng.config.chunk_size = 24
    /\ calls = <<>>

\* C17: initialize() on an initialized engine returns AlreadyInitialized,
\* invokes no stage init or shutdown and leaves the flags, the configuration
\* and the handles unchanged.
C17_AlreadyInitialized ==
    [][(hist'.last = "engineInitialize" /\ eng.initialized) =>
           /\ ret' = "AlreadyInitialized"
           /\ calls' = <<>>
           /\ eng' = eng
           /\ app' = app]_vars

C17_Witness ==
    /\ hist.last = "engineInitialize"
    /\ hist.prev = "engineInitialize"
    /\ ret = "AlreadyInitialized"
    /\ eng.initialized
    /\ eng.running
    /\ eng.window

PausedPhases == <<"timing", "input", "limit", "count">>

UnpausedPhases ==
    <<"timing", "input", "fixed", "update", "render", "gui", "present",
      "limit", "count">>

\* C18: the phases of a runFrame() occur in the order timing, input, then
\* (unless paused) fixed, update, render, gui, present, then limit, then the
\* frame count; at every point of a frame the phases so far are an initial
\* part of that order, and a completed frame has executed exactly that order.
C18_PhaseOrder ==
    /\ pc \in FramePcs =>
           (IsPrefix(phases, PausedPhases) \/ IsPrefix(phases, UnpausedPhases))
    /\ hist.last = "frameDone" =>
           phases = (IF hist.framePaused THEN PausedPhases ELSE UnpausedPhases)

C18_Witness ==
    /\ hist.last = "frameDone"
    /\ mode = "none"
    /\ ~hist.framePaused
    /\ phases = UnpausedPhases
    /\ app.timing.frame_count = 1

HookPhases == {"fixed", "update", "render", "gui"}

C20_ZeroTimeScale ==
    (hist.last = "fixedBegin" /\ hist.prev = "none" /\ app.time_scale = 0) =>
        /\ app.timing.delta_time = 0
        /\ app.accumulator >= app.fixed_timestep

\* C21: a fixed-step phase entered with accumulator a, delta d and timestep f
\* such that floor((a+d)/f) <= 5 invokes on_fixed_update floor((a+d)/f)
\* times, each time with argument f, and leaves the accumulator at
\* (a+d) - f * floor((a+d)/f).
C21_FixedStepCount ==
    (pc = "update" /\ hist.given # <<>>) =>
        LET a == hist.given[1]
            d == hist.given[2]
            f == hist.given[3]
            n == (a + d) \div f
        IN  n <= 5 =>
                /\ hist.fixedCalls = n
                /\ hist.fixedArgs \subseteq {f}
                /\ app.accumulator = (a + d) - f * n

C21_Witness ==
    /\ pc = "update"
    /\ hist.given = <<0, 300, 100>>
    /\ hist.fixedCalls = 3
    /\ hist.fixedArgs = {100}
    /\ app.accumulator = 0

\* C22: once the ring has been fully overwritten by frames of constant raw
\* duration D, getAverageFPS() equals 1/D frames per second.
C22_AverageFPS ==
    (Len(hist.given) = 1 /\ pc = "idle" /\ app.timing.frame_count >= FPS_SAMPLE_COUNT) =>
        LET D == hist.given[1]
            r == getAverageFPS(World)
        IN  /\ (r.num * D) % TicksPerSecond = 0
            /\ (r.num * D) \div TicksPerSecond = r.den

\* C24: run() called from a callback while the Scheduler is running returns
\* AlreadyRunning, fires no hook and executes no frame of its own, leaves the
\* running flag as it was and does not shut the Orchestrator down.
C24_RunWhileRunning ==
    [][hist'.op = "run" =>
           /\ ret' = "AlreadyRunning"
           /\ app'.running = app.running
           /\ app'.timing.frame_count = app.timing.frame_count
           /\ SeqRange(ShutdownsOf(calls')) \subseteq SeqRange(ShutdownsOf(calls))
           /\ eng.initialized => eng' = eng]_vars

\* C25: runApplication returns 0 exactly when run() completed cleanly; it
\* returns a non-zero status when the logger bring-up fails, when
\* initialization or run() returns an error, and when a callback throws (it
\* always comes to return its status: the process is never ended instead).
C25_ExitStatus ==
    /\ pc = "returned" =>
           /\ (ret = "0") = (hist.outcome = "ok")
           /\ hist.outcome # "ok" => ret = "1"
    /\ pc # "terminated"

\* since construction neither initialize() nor shutdown() has been called on
\* the engine, so it has never been initialized
NeverInitialized == hist.ctl = 0 /\ ~eng.initialized

\* C26: getStats() called before the Orchestrator has ever been initialized
\* returns a snapshot whose fields are all zero, however long after
\* construction the call is made.
C26_StatsZeroBeforeInit ==
    (hist.last = "getStats" /\ NeverInitialized) => eng.stats = ZeroStats

ConfigFields == {"width", "height", "chunk_size", "mode"}

\* C27: updateConfig(c) on a not-initialized Orchestrator makes c the
\* configuration; on an initialized one there is an allow-list L such that
\* exactly the fields of L take their value from c, the others keep theirs,
\* and the fields of c that were skipped are the ones reported.
C27_UpdateConfig ==
    hist.last = "updateConfig" =>
        LET c == hist.given[1]
            old == hist.given[2]
            wasInitialized == hist.given[3]
            reported == hist.given[4]
        IN  IF ~wasInitialized
            THEN eng.config = c
            ELSE \E L \in SUBSET ConfigFields :
                     /\ \A f \in ConfigFields :
                            eng.config[f] = IF f \in L THEN c[f] ELSE old[f]
                     /\ reported = {f \in ConfigFields \ L : c[f] # old[f]}

\* C28: validateEngineConfig returns InvalidConfiguration exactly when the
\* window width or height is not positive or chunk_size is not a power of two,
\* for every chunk_size of the range (0 and 1 included) and every width and
\* height (zero and negative included); otherwise it accepts.
C28_ValidateExact ==
    hist.last = "validate" =>
        /\ ret \in {"ok", "InvalidConfiguration"}
        /\ (ret = "InvalidConfiguration") = InvalidConfig(eng.config)

C28_Witness ==
    /\ hist.last = "validate"
    /\ eng.config.chunk_size = 1
    /\ eng.config.width = 1
    /\ eng.config.height = 1
    /\ ret = "ok"

\* C29: the FrameTiming snapshot handed to on_update and to on_render has
\* fixed_delta_time > 0, also when setFixedTimestep was never called.
C29_FixedDeltaPositive ==
    (mode = "manual" /\ pc \in {"update", "render"}) =>
        app.timing.fixed_delta_time > 0

\* one millisecond in ticks
Millisecond == TicksPerSecond \div 1000

\* C30: after any sequence of setTimeScale, setFixedTimestep and
\* setMaxDeltaTime calls with arbitrary arguments, the effective time scale is
\* >= 0 and the effective fixed timestep and maximum delta time are >= 1 ms.
C30_SettersClamp ==
    /\ app.time_scale >= 0
    /\ app.fixed_timestep >= Millisecond
    /\ app.max_delta_time >= Millisecond

C30_Witness ==
    /\ hist.prev = "setFixedTimestep"
    /\ hist.op = "setMaxDeltaTime"
    /\ app.fixed_timestep = Millisecond
    /\ app.max_delta_time = Millisecond

\* C31: with target_fps = 0 the limiter returns without waiting; with
\* target_fps > 0 it returns only once the time since the timing update is at
\* least 1/target_fps, the spin-wait ends at the first clock reading that
\* reaches the deadline, and the wait always comes to an end.
C31_Limiter ==
    /\ [](pc = "count" =>
             IF app.target_fps = 0 THEN elapsed = hist.given[1]
             ELSE /\ elapsed >= target_frame_time(app.target_fps)
                  /\ hist.given[1] >= target_frame_time(app.target_fps)
                         => elapsed = hist.given[1])
    /\ [][pc = "spin" =>
              (pc' = "count") = (elapsed' >= target_frame_time(app.target_fps))]_vars
    /\ (pc \in {"limit", "sleep", "spin"}) ~> (pc = "count")

\* 10 ms of frame work at 30 fps: the limiter returns at 33.3 ms
C31_Witness ==
    /\ pc = "count"
    /\ app.target_fps = 30
    /\ hist.given = <<60>>
    /\ hist.last = "spin"
    /\ elapsed = 200

\* C32: in the rollback after a critical stage failed, shutdown is invoked only
\* on stages whose init was called and succeeded: a failed optional stage
\* (audio, network) and a network stage skipped in Offline mode receive none.
C32_RollbackOnlySucceeded ==
    (hist.last = "engineInitialize" /\ ret = "SubsystemFailure") =>
        \A s \in SeqRange(StagesOf(ShutdownsOf(calls))) :
            /\ <<"init", s>> \in SeqRange(calls)
            /\ s \notin hist.fail

\* the number of timing updates made so far
TimingUpdates ==
    app.timing.frame_count + (IF pc \in {"idle", "timing"} THEN 0 ELSE 1)

\* the frames, of the most recent FPS_SAMPLE_COUNT ones, that wrote slot j
WritersOf(j, n) ==
    {k \in 1..n : k > n - FPS_SAMPLE_COUNT /\ (k - 1) % FPS_SAMPLE_COUNT = j}

\* C33: after n timing updates (paused frames included) the write index is
\* n mod 60 and lies in 0..59, and slot j of the ring holds the raw (unscaled,
\* unclamped) duration of the latest of the last min(n, 60) frames whose turn
\* it was to write j, or its initial 0 when no frame has written it yet.
C33_RingOrder ==
    LET n == TimingUpdates IN
    /\ app.fps_sample_index \in 0..(FPS_SAMPLE_COUNT - 1)
    /\ app.fps_sample_index = n % FPS_SAMPLE_COUNT
    /\ \A j \in 0..(FPS_SAMPLE_COUNT - 1) :
           app.fps_samples[j] =
               IF WritersOf(j, n) = {} THEN 0
               ELSE hist.given[1] + (CHOOSE k \in WritersOf(j, n) : TRUE)

\* the 61st update has overwritten the oldest sample, in slot 0, in a paused run
C33_Witness ==
    /\ TimingUpdates = FPS_SAMPLE_COUNT + 1
    /\ app.paused
    /\ app.fps_sample_index = 1
    /\ app.fps_samples[0] = hist.given[1] + FPS_SAMPLE_COUNT + 1
    /\ app.fps_samples[1] = hist.given[1] + 2
    /\ app.timing.delta_time < app.fps_samples[0]

\* handles in reverse acquisition order: the swapchain was acquired last
ReleaseRank ==
    [swapchain |-> 1, device |-> 2, instance |-> 3, window |-> 4]

\* C34: between the operations, a not-initialized Orchestrator (after
\* construction, after a failed initialize(), after shutdown()) holds no
\* window, instance or device handle; and the releases made by an operation
\* come in reverse acquisition order: swapchain, device, instance, window.
C34_Handles ==
    /\ ~eng.initialized => (~eng.window /\ ~eng.instance /\ ~eng.device)
    /\ \A i, j \in 1..Len(hist.freed) :
           i < j => ReleaseRank[hist.freed[i]] < ReleaseRank[hist.freed[j]]

\* a bring-up that failed at the swapchain, after the window was created
C34_Witness ==
    /\ hist.last = "engineInitialize"
    /\ "createSwapchain" \in hist.fail
    /\ ret = "SubsystemFailure"
    /\ hist.freed = <<"device", "instance", "window">>
    /\ ~eng.initialized
    /\ ~eng.window

\* C35: run() on a not-initialized Orchestrator whose bring-up fails returns
\* EngineInitFailed at once: on_start and on_shutdown are not fired, no frame
\* is executed, the running flag stays false and the Orchestrator stays not
\* initialized; the loop is entered only with the Orchestrator initialized.
C35_RunBringUpFails ==
    [][(hist'.last = "run" /\ ~eng.initialized) =>
           /\ ~eng'.initialized => ret' # "pending"
           /\ ret' # "pending" =>
                  /\ ret' = "EngineInitFailed"
                  /\ pc' = "idle"
                  /\ mode' = "none"
                  /\ hist'.op = "none"
                  /\ ~app.running /\ ~app'.running
                  /\ app'.timing = app.timing
                  /\ ~eng'.initialized /\ ~eng'.running]_vars

\* run() returned after a rollback: the bring-up had reached the stages
C35_Witness ==
    /\ hist.last = "run"
    /\ ret = "EngineInitFailed"
    /\ pc = "idle"
    /\ Len(ShutdownsOf(calls)) > 0
    /\ ~app.running
    /\ ~eng.initialized

\* C36: when a callback throws in the loop driven by runApplication, the
\* Orchestrator is shut down, every stage receiving its shutdown call, by the
\* time the runner is done, and the status returned is non-zero.
C36_ThrowStillShutsDown ==
    (hist.outcome = "exception" /\ pc \in {"returned", "terminated"}) =>
        /\ pc = "returned"
        /\ ret = "1"
        /\ ~eng.initialized
        /\ calls = FullShutdownLog

\* C37: the time_scale field of the FrameTiming snapshot handed to on_update
\* and on_render equals the time scale that was applied when the frame's
\* delta_time was computed, also when setTimeScale was never called.
C37_SnapshotTimeScale ==
    (mode = "manual" /\ pc \in {"update", "render"}) =>
        app.timing.time_scale = hist.scaleApplied

\* C38: a frame whose pause test finds the Scheduler paused leaves the
\* accumulator and the interpolation factor as they were at its start, while
\* its timing update adds the frame's delta_time to total_time and writes one
\* ring sample, and the frame is counted; total_time never decreases and
\* equals the sum of the delta_time of all frames so far.
C38_PausedFrame ==
    /\ [](app.timing.total_time = hist.sumDelta)
    /\ [][/\ app'.timing.total_time >= app.timing.total_time
          /\ (\/ pc \in {"timing", "input"}
              \/ hist.framePaused /\ pc \in FramePcs) =>
                 /\ app'.accumulator = app.accumulator
                 /\ app'.timing.interpolation = app.timing.interpolation
          /\ hist'.last = "updateTiming" =>
                 /\ app'.timing.total_time =
                        app.timing.total_time + app'.timing.delta_time
                 /\ app'.fps_sample_index =
                        (app.fps_sample_index + 1) % FPS_SAMPLE_COUNT
                 /\ \A j \in 0..(FPS_SAMPLE_COUNT - 1) :
                        j # app.fps_sample_index =>
                            app'.fps_samples[j] = app.fps_samples[j]
          /\ (hist'.last = "frameDone" /\ hist.framePaused) =>
                 /\ app'.timing.frame_count = hist.fcStart + 1
                 /\ phases' = PausedPhases]_vars

\* an unpaused frame left half a step in the accumulator, the paused frame
\* after it kept it and still advanced total_time
C38_Witness ==
    /\ hist.last = "frameDone"
    /\ hist.framePaused
    /\ app.timing.frame_count = 2
    /\ app.accumulator = 50
    /\ app.timing.interpolation = [num |-> 50, den |-> 100]
    /\ app.timing.delta_time = 150
    /\ app.timing.total_time = 300

\* C39: on a Scheduler constructed with a null Orchestrator no public
\* operation dereferences the null pointer: initialize(), runFrame() and run()
\* return NotInitialized, shouldClose() answers true, requestExit() and
\* setPaused() return normally, and no Orchestrator state is touched.
C39_NullEngineSafe ==
    ~app.engine_ =>
        /\ ~hist.nullDeref
        /\ pc = "idle"
        /\ eng = InitEngine(DefaultConfig)
        /\ hist.last \in {"appInitialize", "runFrame", "run"} =>
               ret = "NotInitialized"
        /\ hist.last = "shouldClose" => ret = "true"
        /\ hist.last \in {"requestExit", "setPaused"} => ret = "void"

\* C40: init() on an initialized logger returns AlreadyInitialized and leaves
\* the handler registry unchanged; shutdown() on a non-initialized logger
\* returns NotInitialized; a shutdown() that found the logger initialized
\* leaves it non-initialized with an empty registry whatever it returns; an
\* init() directly after such a shutdown() is not refused, and when its
\* handler is created the registry is exactly <<"console">>.
C40_LoggerLifecycle ==
    [][/\ (hist'.last = "Logger::init" /\ eng.g_initialized) =>
              /\ ret' = "AlreadyInitialized"
              /\ eng' = eng
       /\ (hist'.last = "Logger::shutdown" /\ ~eng.g_initialized) =>
              /\ ret' = "NotInitialized"
              /\ eng' = eng
       /\ (hist'.last = "Logger::shutdown" /\ eng.g_initialized) =>
              /\ ~eng'.g_initialized
              /\ eng'.g_handlers = <<>>
       /\ (/\ hist'.last = "Logger::init"
           /\ hist.last = "Logger::shutdown"
           /\ ret # "NotInitialized") =>
              /\ ret' # "AlreadyInitialized"
              /\ ret' = "ok" => /\ eng'.g_initialized
                                /\ eng'.g_handlers = <<"console">>]_vars

====
